---------------------------- MODULE Spec2Model ----------------------------
(***************************************************************************)
(* A model of the disassembly engine of llvm-objdump                       *)
(* (src/unnamed/part_002): the zero-skipping policy, the symbol index, the *)
(* relocation index, the per-section disassembly driver and the            *)
(* live-variable column printer.                                           *)
(*                                                                         *)
(* The module holds several specifications over one set of variables; a    *)
(* specification leaves the variables of the other components at their     *)
(* idle values.                                                            *)
(*   Spec      disassembleObject on one text section, and the standalone   *)
(*             relocation dump                                             *)
(*   SpecSkip  countSkippableZeroBytes applied to a buffer                 *)
(*   SpecSort  the symbol index: collection and sorting                    *)
(*   SpecLVP   LiveVariablePrinter::update, called any number of times     *)
(*   SpecResolve  the resolution of a branch or memory-operand target to   *)
(*             a symbol and its annotation                                 *)
(***************************************************************************)
EXTENDS Integers, Sequences, FiniteSets, TLC

VARIABLES
    \* ---- countSkippableZeroBytes (one call) ----
    Buf,        \* ArrayRef<uint8_t> Buf, the argument
    N,          \* the value returned
    skipPc,     \* "idle" | "call" | "done"
    \* ---- disassembleObject: the object and the options ----
    IsRelocatable,      \* Obj->isRelocatableObject()
    Disassemble,        \* -d
    InlineRelocs,       \* --reloc: the flag Relocations, which dumpObject
                        \* hands to disassembleObject as InlineRelocs
    ObjRels,            \* the relocations the object holds for the section,
                        \* in the order of its relocation section
    DisassembleZeroes,  \* -z
    StartAddress,       \* --start-address, 0 when not given
    StopAddress,        \* --stop-address, UINT64_MAX when not given
    SectionAddr,        \* Section.getAddress()
    Bytes,              \* Section.getContents(), 1-based
    Symbols,            \* AllSymbols[Section], sorted, with the dummy symbol
    MappingSymbols,     \* (offset, kind) pairs of the section, sorted
    Rels,               \* RelocMap[Section]
    \* ---- disassembleObject: the cursors of the driver ----
    pc,                 \* "idle" | "dump" | "section" | "symbols" | "loop"
                        \* | "done"
    SI,                 \* index of the current symbol, 0-based as in the code
    Start, End,         \* the current symbol range, section-relative
    Index,              \* byte index of the current unit
    Size,               \* size of the last unit
    RelCur,             \* index into Rels of the pending relocation, 0-based
    \* ---- what the driver printed (observations, not program state) ----
    relocLines,         \* offsets of the lines printRelocations printed
    unit,               \* the last loop iteration: what it printed
    iters,              \* loop iterations made in the current symbol range
    onlyUnknown,        \* every iteration of the current symbol range so far
                        \* printed an "<unknown>" line
    \* ---- disassembleObject: building the symbol index ----
    SecSyms,            \* AllSymbols[Section] of one section
    AbsoluteSymbols,    \* the symbols that have no section
    sortPc,             \* "idle" | "collect" | "sorted"
    \* ---- LiveVariablePrinter ----
    LiveVariables,      \* the location ranges of the variables, by VarIdx
    ActiveCols,         \* IndexedMap<Column>; column ColIdx is ActiveCols[ColIdx + 1]
    ThisAddr, NextAddr, \* the arguments of the last call of update
    \* ---- disassembleObject: resolving a target ----
    ObjSections,        \* Obj->sections(): address and size of each
    AllSymbols,         \* AllSymbols[Sec], by the index of Sec in ObjSections
    SectionAddresses,   \* the (address, section) pairs, sorted
    CurSection,         \* the section being disassembled
    Target,             \* the target evaluateBranch or
                        \* evaluateMemoryOperandAddress gave
    AllLabels,          \* the local labels of the current symbol range
    TargetSym,          \* the symbol found, with the table it was found in
    Annotation,         \* what was printed after the instruction
    resPc,              \* "idle" | "ready" | "resolved"
    \* ---- the objects of a run and the missing-symbol warnings ----
    DisasmSymbolSet,    \* the names given with --disassemble-symbols
    ObjFiles,           \* the objects dumped, each the symbols its sections
                        \* hold, in the order the symbol loops visit them
    ObjIdx,             \* the object being disassembled, from 1
    SymIdx,             \* how many of its symbols the loops have visited
    FoundDisasmSymbolSet, \* the local set of disassembleObject
    Warnings,           \* what reportWarning printed: [Sym, FileName]
    missPc,             \* "idle" | "run" | "done"
    \* ---- collectLocalBranchTargets ----
    clX86,              \* STI->getTargetTriple().isX86()
    clMIA,              \* MIA is not null
    clStart, clEnd,     \* Start and End, after `+= SectionAddr`
    clIndex,            \* Index
    Labels,             \* the map from target address to label
    LabelCount,
    clDecoded,          \* the addresses handed to getInstruction, in order
    clInst,             \* what getInstruction and evaluateBranch last gave
    clPc,               \* "idle" | "loop" | "done"
    \* ---- the calls of the LiveVariablePrinter in the instruction loop ----
    OS,                 \* the lines the last call of the printer for the
                        \* instruction at hand wrote to
    prIndex, prSize,    \* Index and Size of the instruction at hand
    prEnd,              \* End of the symbol at hand
    prSrc,              \* the source lines printed before the instruction
    labelLines,         \* by VarIdx: the label lines printed for the
                        \* variable since it took its column
    prPc,               \* "idle" | "update" | "source" | "after" | "reloc"
                        \* | "next" | "done"
    \* ---- disassembleObject: the decoder in use (ARM ELF) ----
    DisAsm,             \* "Primary" | "Secondary"; STI goes with it
    PrimaryIsThumb,     \* the primary subtarget has +thumb-mode
    SecondarySTI,       \* there is a secondary subtarget
    Kind,               \* what getMappingSymbolKind last gave
    RestSections,       \* the mapping symbols of the sections to come
    \* ---- disassembleObject: the answer of onSymbolStart ----
    Status,             \* "None" | "Fail" | "SoftFail" | "Success"
    byteLines           \* the bytes printed as .byte lines

skipVars == <<Buf, N, skipPc>>
objVars == <<IsRelocatable, Disassemble, InlineRelocs, ObjRels,
             DisassembleZeroes, StartAddress, StopAddress, SectionAddr, Bytes, Symbols, MappingSymbols,
             Rels>>
curVars == <<pc, SI, Start, End, Index, Size, RelCur>>
outVars == <<relocLines, unit, iters, onlyUnknown>>
drvVars == <<objVars, curVars, outVars>>
sortVars == <<SecSyms, AbsoluteSymbols, sortPc>>
lvpVars == <<LiveVariables, ActiveCols, ThisAddr, NextAddr>>
resVars == <<ObjSections, AllSymbols, SectionAddresses, CurSection, Target,
             AllLabels, TargetSym, Annotation, resPc>>
\* The variables of the components added to the model after the first four.
missVars == <<DisasmSymbolSet, ObjFiles, ObjIdx, SymIdx, FoundDisasmSymbolSet,
              Warnings, missPc>>
clVars == <<clX86, clMIA, clStart, clEnd, clIndex, Labels, LabelCount,
            clDecoded, clInst, clPc>>
prVars == <<OS, prIndex, prSize, prEnd, prSrc, labelLines, prPc>>
modeVars == <<DisAsm, PrimaryIsThumb, SecondarySTI, Kind, RestSections>>
startVars == <<Status, byteLines>>
lateVars == <<modeVars, startVars>>
moreVars == <<missVars, clVars, prVars, lateVars>>
extVars == <<resVars, moreVars>>
\* The variables the driver never touches.
auxVars == <<skipVars, sortVars, lvpVars, extVars>>
vars == <<skipVars, drvVars, sortVars, lvpVars, extVars>>

Zeros(n) == [i \in 1..n |-> 0]

RECURSIVE SeqsUpTo(_, _)
SeqsUpTo(S, n) ==
    IF n = 0 THEN {<<>>}
    ELSE LET Shorter == SeqsUpTo(S, n - 1)
         IN  Shorter \cup {Append(s, x) : s \in {t \in Shorter : Len(t) = n - 1}, x \in S}

\* uint8_t values that stand for the bytes of a section: zero and two
\* non-zero bytes.
Bytes8 == {0, 1, 255}

(***************************************************************************)
(* countSkippableZeroBytes                                                 *)
(***************************************************************************)
\* The threshold of `if (N < 8) return 0`.
MinZeroRun == 8
\* The granule of `N & ~0x3`.
SkipGranule == 4

\* while (N < Buf.size() && !Buf[N]) ++N;   (Buf is 1-based here)
RECURSIVE LeadingZeroes(_, _)
LeadingZeroes(B, n) ==
    IF n < Len(B) /\ B[n + 1] = 0 THEN LeadingZeroes(B, n + 1) ELSE n

ClearLowBits_Mask7(n) == (n \div 8) * 8

\* N & ~0x3 on a size_t: the two low bits cleared.
ClearLowBits(n) == (n \div SkipGranule) * SkipGranule

countSkippableZeroBytes_OffByOne(B) ==
    LET n == LeadingZeroes(B, 0)
    IN  IF n <= MinZeroRun THEN 0 ELSE ClearLowBits(n)

countSkippableZeroBytes(B) ==
    LET n == LeadingZeroes(B, 0)
    IN  IF n < MinZeroRun THEN 0 ELSE ClearLowBits(n)

(***************************************************************************)
(* Arithmetic helpers                                                      *)
(***************************************************************************)
Min(a, b) == IF a <= b THEN a ELSE b
Max(a, b) == IF a >= b THEN a ELSE b

(***************************************************************************)
(* The object being disassembled                                           *)
(***************************************************************************)
\* The model is of an AArch64 ELF object (hasMappingSymbols, no secondary
\* decoder), of a text section with contents, without --disassemble-all,
\* --start-address, --stop-address or --adjust-vma.
IsELF == TRUE
DisassembleAll == FALSE
SectionIsText == TRUE
IsHexagon == FALSE
hasMappingSymbols == TRUE
\* StopAddress defaults to UINT64_MAX; the largest 32-bit integer stands
\* for it, and no address of the model comes near it.
UINT64_MAX == 2147483647
SectionName == <<".", "t", "e", "x", "t">>

\* ---- bounds of the section ----
MaxSect == 13           \* Section.getSize()
MaxSyms == 2            \* symbols the object has in the section
MaxRels == 2            \* relocations the object has for the section
MaxInsn == 2            \* the largest size the decoder reports
MaxOver == 1            \* zero bytes that follow the section in memory
BaseAddr == 16          \* the address of the section in a linked image

SectSize == MaxSect

\* SymbolInfoTy(Addr, Name, Type); a name is its sequence of characters.
SymbolInfoTy(a, n, t) == [Addr |-> a, Name |-> n, Type |-> t]

\* The symbols an object may hold for the section: a function or a data
\* object at the start, a function or a data mapping symbol 4 bytes in.
SymChoices(base) ==
    {SymbolInfoTy(base, <<"f">>, "STT_FUNC"),
     SymbolInfoTy(base, <<"v">>, "STT_OBJECT"),
     SymbolInfoTy(base + 4, <<"g">>, "STT_FUNC"),
     SymbolInfoTy(base + 4, <<"$", "d">>, "STT_NOTYPE")}

\* The section contents: non-zero bytes around one run of zero bytes
\* [lo, hi).
SectionContents(lo, hi) ==
    [i \in 1..SectSize |-> IF lo < i /\ i <= hi THEN 0 ELSE 1]
ZeroStarts == {0, 4}
ContentChoices ==
    UNION {{SectionContents(lo, hi) : hi \in {lo} \cup ((lo + MinZeroRun)..SectSize)} :
           lo \in ZeroStarts}

RelocationRef(o, h) == [Offset |-> o, Hidden |-> h]
RelChoices ==
    {RelocationRef(1, FALSE), RelocationRef(6, FALSE), RelocationRef(6, TRUE),
     RelocationRef(10, FALSE)}

\* operator< of SymbolInfoTy: address ascending.
SymbolLess(a, b) == a.Addr < b.Addr

\* isRelocAddressLess
isRelocAddressLess(a, b) == a.Offset < b.Offset

\* The order of the mapping-symbol kinds as characters.
KindOrd(k) == CASE k = "a" -> 1 [] k = "d" -> 2 [] k = "t" -> 3 [] OTHER -> 4
\* operator< of std::pair<uint64_t, char>
MappingPairLess(a, b) ==
    a[1] < b[1] \/ (a[1] = b[1] /\ KindOrd(a[2]) < KindOrd(b[2]))

\* The lambda that orders SectionAddresses: by address, then by size, so
\* that an empty section comes before the others of its address.
SectionAddressLess(LHS, RHS) ==
    IF LHS.first # RHS.first THEN LHS.first < RHS.first
    ELSE LHS.second.Size < RHS.second.Size

\* The comparison a sort of the driver uses, by what it sorts.
Less(what, a, b) ==
    CASE what = "Symbols" -> SymbolLess(a, b)
      [] what = "Relocations" -> isRelocAddressLess(a, b)
      [] what = "MappingSymbols" -> MappingPairLess(a, b)
      [] what = "SectionAddresses" -> SectionAddressLess(a, b)

\* One element put into a sorted sequence after every element that is not
\* greater than it: what keeps a stable sort stable.
RECURSIVE InsertStable(_, _, _)
InsertStable(what, s, x) ==
    IF s = <<>> THEN <<x>>
    ELSE IF Less(what, x, s[1]) THEN <<x>> \o s
         ELSE <<s[1]>> \o InsertStable(what, Tail(s), x)

\* llvm::stable_sort(Range) and llvm::stable_sort(Range, Less)
RECURSIVE stable_sort(_, _)
stable_sort(what, s) ==
    IF s = <<>> THEN <<>>
    ELSE InsertStable(what, stable_sort(what, SubSeq(s, 1, Len(s) - 1)), s[Len(s)])

\* One symbol put into a sorted table before the symbols of its address.
RECURSIVE InsertBeforeEqual(_, _)
InsertBeforeEqual(s, x) ==
    IF s = <<>> THEN <<x>>
    ELSE IF x.Addr <= s[1].Addr THEN <<x>> \o s
         ELSE <<s[1]>> \o InsertBeforeEqual(Tail(s), x)

\* A sort that is not stable.
RECURSIVE SortSymbolTable_Unstable(_)
SortSymbolTable_Unstable(s) ==
    IF s = <<>> THEN <<>>
    ELSE InsertBeforeEqual(SortSymbolTable_Unstable(SubSeq(s, 1, Len(s) - 1)), s[Len(s)])

\* llvm::stable_sort(SecSyms.second), llvm::stable_sort(AbsoluteSymbols)
SortSymbolTable(s) == stable_sort("Symbols", s)

\* getHidden(*RelCur)
getHidden(r) == r.Hidden

\* Sec.getRelocatedSection(): the relocation sections of a final-linked
\* object relocate no section.
RelocatedSectionExists == IsRelocatable

\* getRelocsMap(Obj)[Section], given the relocations the object holds for
\* the section.
getRelocsMap(objRels) ==
    IF RelocatedSectionExists
    THEN stable_sort("Relocations", objRels)
    ELSE <<>>

\* RelocMap[Section]: the map is only built for InlineRelocs.
RelocMapOf(objRels) == IF InlineRelocs THEN getRelocsMap(objRels) ELSE <<>>

StartsWith(s, p) == Len(s) >= Len(p) /\ SubSeq(s, 1, Len(p)) = p

\* The MappingSymbols.emplace_back calls made for one symbol.
MappingPairsOf(sym, sa) ==
    (IF StartsWith(sym.Name, <<"$", "d">>) THEN <<<<sym.Addr - sa, "d">>>> ELSE <<>>)
    \o (IF StartsWith(sym.Name, <<"$", "x">>) THEN <<<<sym.Addr - sa, "x">>>> ELSE <<>>)
    \o (IF StartsWith(sym.Name, <<"$", "a">>) THEN <<<<sym.Addr - sa, "a">>>> ELSE <<>>)
    \o (IF StartsWith(sym.Name, <<"$", "t">>) THEN <<<<sym.Addr - sa, "t">>>> ELSE <<>>)

RECURSIVE CollectMappingSymbols(_, _)
CollectMappingSymbols(syms, sa) ==
    IF syms = <<>> THEN <<>>
    ELSE MappingPairsOf(syms[1], sa) \o CollectMappingSymbols(Tail(syms), sa)

\* The mapping symbols of the section, after llvm::sort.
BuildMappingSymbols(syms, sa) ==
    IF hasMappingSymbols
    THEN stable_sort("MappingSymbols", CollectMappingSymbols(syms, sa))
    ELSE <<>>

\* getMappingSymbolKind: the kind of the last mapping symbol at or before
\* Address, "\x00" (here "0") before the first.
getMappingSymbolKind(ms, addr) ==
    LET below == {i \in 1..Len(ms) : ms[i][1] <= addr}
    IN  IF below = {} THEN "0"
        ELSE ms[CHOOSE i \in below : \A j \in below : j <= i][2]

createDummySymbolInfo(addr, name, type) == SymbolInfoTy(addr, name, type)

\* If the section has no symbol at the start, just insert a dummy one.
InsertDummy(syms, sa) ==
    IF syms = <<>> \/ syms[1].Addr # 0
    THEN <<createDummySymbolInfo(sa, SectionName,
                                 IF SectionIsText THEN "STT_FUNC" ELSE "STT_OBJECT")>>
         \o syms
    ELSE syms

(***************************************************************************)
(* disassembleObject: the symbol loop and the instruction loop of one      *)
(* section                                                                 *)
(***************************************************************************)
SkipIdle == Buf = <<>> /\ N = 0 /\ skipPc = "idle"
SortIdle == SecSyms = <<>> /\ AbsoluteSymbols = <<>> /\ sortPc = "idle"
NoAddr == [Address |-> 0, SectionIndex |-> 0]
LvpIdle ==
    /\ LiveVariables = <<>> /\ ActiveCols = <<>>
    /\ ThisAddr = NoAddr /\ NextAddr = NoAddr
\* No symbol: TargetSym == nullptr.
NoSym == [found |-> FALSE, tab |-> -1, sym |-> [Addr |-> 0, Name |-> <<>>, Type |-> ""]]
ResIdle ==
    /\ ObjSections = <<>> /\ AllSymbols = <<>> /\ SectionAddresses = <<>>
    /\ CurSection = 0 /\ Target = 0 /\ AllLabels = <<>>
    /\ TargetSym = NoSym /\ Annotation = <<>> /\ resPc = "idle"
MissIdle ==
    /\ DisasmSymbolSet = {} /\ ObjFiles = <<>> /\ ObjIdx = 0 /\ SymIdx = 0
    /\ FoundDisasmSymbolSet = {} /\ Warnings = <<>> /\ missPc = "idle"
NoInst == [Disassembled |-> FALSE, Size |-> 0, TargetKnown |-> FALSE, Target |-> 0]
ClIdle ==
    /\ clX86 = FALSE /\ clMIA = FALSE /\ clStart = 0 /\ clEnd = 0 /\ clIndex = 0
    /\ Labels = <<>> /\ LabelCount = 0 /\ clDecoded = <<>> /\ clInst = NoInst
    /\ clPc = "idle"
PrIdle ==
    /\ OS = <<>> /\ prIndex = 0 /\ prSize = 0 /\ prEnd = 0 /\ prSrc = 0
    /\ labelLines = <<>> /\ prPc = "idle"
ModeIdle ==
    /\ DisAsm = "Primary" /\ PrimaryIsThumb = FALSE /\ SecondarySTI = FALSE
    /\ Kind = "0" /\ RestSections = <<>>
StartIdle == Status = "None" /\ byteLines = <<>>
LateIdle == ModeIdle /\ StartIdle
MoreIdle == MissIdle /\ ClIdle /\ PrIdle /\ LateIdle
ExtIdle == ResIdle /\ MoreIdle

NoUnit == [kind |-> "none", index |-> 0, addr |-> 0, size |-> 0,
           rels |-> <<>>, pend |-> -1, ok |-> FALSE, reported |-> 0]

\* The driver idle, but for the kind of the object.
DrvObjIdle ==
    /\ InlineRelocs = FALSE /\ DisassembleZeroes = FALSE
    /\ Disassemble = FALSE /\ ObjRels = <<>> /\ relocLines = <<>>
    /\ SectionAddr = 0 /\ Bytes = <<>> /\ Symbols = <<>> /\ MappingSymbols = <<>>
    /\ Rels = <<>>
    /\ pc = "idle" /\ SI = 0 /\ Start = 0 /\ End = 0 /\ Index = 0 /\ Size = 0
    /\ RelCur = 0
    /\ unit = NoUnit /\ iters = 0 /\ onlyUnknown = TRUE
DrvRestIdle == StartAddress = 0 /\ StopAddress = UINT64_MAX /\ DrvObjIdle
DrvIdle == IsRelocatable = FALSE /\ DrvRestIdle

\* Relocations sorted by offset, as most relocation sections hold them.
SortedRels(S) == {r \in S : r = stable_sort("Relocations", r)}

\* The state when the loop over the sections reaches the section (line
\* 1636): the symbol table sorted, the relocations of the section in
\* RelocMap.  A relocatable object has its sections at address 0.
InitDisassemble ==
    /\ Disassemble = TRUE
    /\ IsRelocatable \in BOOLEAN
    /\ InlineRelocs \in BOOLEAN
    /\ DisassembleZeroes \in BOOLEAN
    /\ StartAddress = 0 /\ StopAddress = UINT64_MAX
    /\ SectionAddr = (IF IsRelocatable THEN 0 ELSE BaseAddr)
    \* Only the zero counter reads the bytes, and -z turns it off.
    /\ Bytes \in (IF DisassembleZeroes THEN {Zeros(SectSize)} ELSE ContentChoices)
    /\ \E objSyms \in SeqsUpTo(SymChoices(SectionAddr), MaxSyms) :
         Symbols = SortSymbolTable(objSyms)
    /\ MappingSymbols = <<>>
    /\ ObjRels \in (IF IsRelocatable /\ InlineRelocs
                    THEN SortedRels(SeqsUpTo(RelChoices, MaxRels))
                    ELSE {<<>>, <<RelocationRef(6, FALSE)>>})
    /\ Rels = RelocMapOf(ObjRels)
    /\ pc = "section" /\ SI = 0 /\ Start = 0 /\ End = 0 /\ Index = 0 /\ Size = 0
    /\ RelCur = 0
    /\ relocLines = <<>> /\ unit = NoUnit /\ iters = 0 /\ onlyUnknown = TRUE

\* The state in dumpObject before `if (Relocations && !Disassemble)`.
InitRelocsOnly ==
    /\ Disassemble = FALSE
    /\ IsRelocatable \in BOOLEAN
    /\ InlineRelocs \in BOOLEAN
    /\ DisassembleZeroes = FALSE
    /\ StartAddress = 0 /\ StopAddress = UINT64_MAX
    /\ SectionAddr = (IF IsRelocatable THEN 0 ELSE BaseAddr)
    /\ Bytes = Zeros(SectSize)
    /\ Symbols = <<>> /\ MappingSymbols = <<>>
    /\ ObjRels \in SeqsUpTo(RelChoices, MaxRels)
    /\ Rels = <<>>
    /\ pc = "dump" /\ SI = 0 /\ Start = 0 /\ End = 0 /\ Index = 0 /\ Size = 0
    /\ RelCur = 0
    /\ relocLines = <<>> /\ unit = NoUnit /\ iters = 0 /\ onlyUnknown = TRUE

InitDriver == InitDisassemble \/ InitRelocsOnly

\* The offsets of the lines printRelocations prints for the section: none
\* for an object that is not relocatable, else one per relocation that is
\* not hidden and lies within [StartAddress, StopAddress], in the order of
\* the relocation section.
printRelocations_NoGuard(rels) ==
    SelectSeq(rels,
              LAMBDA r : ~(r.Offset < StartAddress \/ r.Offset > StopAddress
                           \/ getHidden(r)))
printRelocations(rels) ==
    IF ~IsRelocatable THEN <<>>
    ELSE SelectSeq(rels,
                   LAMBDA r : ~(r.Offset < StartAddress \/ r.Offset > StopAddress
                                \/ getHidden(r)))

\* dumpObject: if (Relocations && !Disassemble) printRelocations(O);
PrintRelocationsOnly ==
    /\ pc = "dump"
    /\ InlineRelocs /\ ~Disassemble
    /\ relocLines' = [i \in 1..Len(printRelocations(ObjRels)) |->
                         printRelocations(ObjRels)[i].Offset]
    /\ pc' = "done"
    /\ UNCHANGED <<SI, Start, End, Index, Size, RelCur, unit, iters, onlyUnknown,
                   objVars, auxVars>>

\* The body of the section loop up to the symbol loop (lines 1636-1703):
\* the mapping symbols are collected and the table gets its dummy symbol.
EnterSection ==
    /\ pc = "section"
    /\ MappingSymbols' = BuildMappingSymbols(Symbols, SectionAddr)
    /\ Symbols' = InsertDummy(Symbols, SectionAddr)
    /\ pc' = "symbols"
    /\ UNCHANGED <<IsRelocatable, Disassemble, InlineRelocs, ObjRels,
                   DisassembleZeroes, StartAddress, StopAddress, SectionAddr,
                   Bytes, Rels, SI, Start, End, Index, Size, RelCur, outVars,
                   auxVars>>

SE == Len(Symbols)
RelEnd == Len(Rels)

\* uint64_t Start = Symbols[SI].Addr
SymStart == Symbols[SI + 1].Addr
SymEnd_SectionEnd ==
    LET e == SectionAddr + SectSize
    IN  IF SI + 1 < SE THEN Min(e, Symbols[SI + 2].Addr) ELSE e
\* The end is the section end, the beginning of the next symbol, or
\* --stop-address.
SymEnd ==
    LET e == Min(SectionAddr + SectSize, StopAddress)
    IN  IF SI + 1 < SE THEN Min(e, Symbols[SI + 2].Addr) ELSE e

\* The two `continue`s that skip a symbol (lines 1716 and 1726).
SymbolSkipped ==
    \/ SymStart < SectionAddr \/ StopAddress <= SymStart
    \/ SymStart >= SymEnd \/ SymEnd <= StartAddress

\* What DisAsm->onSymbolStart may answer: nothing (most targets), or a
\* status with the size it consumed.
SymbolStartResults(avail) ==
    {[Status |-> "None", Size |-> 0]}

\* for (...; SI != SE; ++SI) { ...; continue; }
SkipSymbol ==
    /\ pc = "symbols" /\ SI # SE
    /\ SymbolSkipped
    /\ SI' = SI + 1
    /\ UNCHANGED <<pc, Start, End, Index, Size, RelCur, objVars, outVars, auxVars>>

\* The body of the symbol loop up to the instruction loop
\* (lines 1715-1812).
BeginSymbol ==
    /\ pc = "symbols" /\ SI # SE
    /\ ~SymbolSkipped
    /\ \E st \in SymbolStartResults(SymEnd - SymStart) :
         LET start == (SymStart - SectionAddr) + st.Size
             end == SymEnd - SectionAddr
             idx0 == IF SectionAddr < StartAddress
                     THEN Max(start, StartAddress - SectionAddr)
                     ELSE start
             SymTy == Symbols[SI + 1].Type
             dumpData == /\ IsELF /\ ~DisassembleAll /\ SectionIsText
                         /\ SymTy \in {"STT_OBJECT", "STT_COMMON"}
         IN  /\ Size' = st.Size
             /\ Start' = start
             /\ End' = end
             \* dumpELFData(SectionAddr, Index, End, Bytes); Index = End;
             /\ Index' = IF dumpData THEN end ELSE idx0
    /\ pc' = "loop"
    /\ iters' = 0 /\ onlyUnknown' = TRUE /\ unit' = NoUnit
    /\ UNCHANGED <<SI, RelCur, relocLines, objVars, auxVars>>

CheckARMELFData ==
    /\ hasMappingSymbols
    /\ Symbols[SI + 1].Type # "STT_OBJECT"
    /\ ~DisassembleAll
\* DumpARMELFData as the iteration at Index sets it.
DumpARMELFData ==
    CheckARMELFData /\ getMappingSymbolKind(MappingSymbols, Index) = "d"

\* dumpARMELFData: a .word, a .short or a .byte.
dumpARMELFData(idx, end) ==
    IF idx + 4 <= end THEN 4 ELSE IF idx + 2 <= end THEN 2 ELSE 1

PendingOffset == IF RelCur # RelEnd THEN Rels[RelCur + 1].Offset ELSE -1

\* Bytes.slice(Index, MaxOffset) with
\*   MaxOffset = End - Index, or RelCur->getOffset() - Index.
\* The subtraction is of uint64_t: with the pending relocation below Index it
\* wraps to a length that covers the rest of the section and the memory
\* after it, `over`.
SkipWindow(over) ==
    IF RelCur # RelEnd
    THEN IF PendingOffset >= Index
         THEN SubSeq(Bytes, Index + 1, PendingOffset)
         ELSE SubSeq(Bytes, Index + 1, SectSize) \o over
    ELSE SubSeq(Bytes, Index + 1, End)

\* What an out-of-bounds read may find after the section: some zero bytes,
\* then a byte that is not zero.
OverReads ==
    IF RelCur # RelEnd /\ PendingOffset < Index
    THEN {Zeros(k) \o <<1>> : k \in 0..MaxOver}
    ELSE {<<>>}

\* The relocation loop run after a unit (lines 1979-2008): the cursor
\* reached and the offsets printed.
RECURSIVE PrintRelocs(_, _, _)
PrintRelocs(cur, limit, printed) ==
    IF cur = RelEnd THEN [cur |-> cur, printed |-> printed]
    ELSE LET Offset == Rels[cur + 1].Offset
         IN  IF getHidden(Rels[cur + 1]) \/ SectionAddr + Offset < StartAddress
             THEN PrintRelocs(cur + 1, limit, printed)
             ELSE IF Offset >= limit
                  THEN [cur |-> cur, printed |-> printed]
                  ELSE PrintRelocs(cur + 1, limit, Append(printed, Offset))

RelocsAfterUnit_Rewind(size) == PrintRelocs(0, Index + size, <<>>)
RelocsAfterUnit(size) ==
    IF IsHexagon THEN [cur |-> RelCur, printed |-> <<>>]
    ELSE PrintRelocs(RelCur, Index + size, <<>>)

\* The address handed to getInstruction, to AllLabels.find and to
\* evaluateBranch for the unit at idx.
UnitAddress_Start(sa, idx) == sa + Start
UnitAddress(sa, idx) == sa + idx

\* An iteration that skips a block of zero bytes and `continue`s.
ZeroSkip ==
    /\ pc = "loop" /\ Index < End
    /\ ~DumpARMELFData
    /\ ~DisassembleZeroes
    /\ \E over \in OverReads :
         LET n == countSkippableZeroBytes(SkipWindow(over))
         IN  /\ n # 0
             /\ Index' = Index + n
             /\ unit' = [kind |-> "skip", index |-> Index, addr |-> 0,
                         size |-> n, rels |-> <<>>, pend |-> PendingOffset,
                         ok |-> FALSE, reported |-> 0]
    /\ iters' = iters + 1
    /\ onlyUnknown' = FALSE
    /\ UNCHANGED <<pc, SI, Start, End, Size, RelCur, relocLines, objVars, auxVars>>

\* An iteration that dumps a data unit of an ARM/AArch64 data region.
DataUnit ==
    /\ pc = "loop" /\ Index < End
    /\ DumpARMELFData
    /\ LET size == dumpARMELFData(Index, End)
           after == RelocsAfterUnit(size)
       IN  /\ Size' = size
           /\ RelCur' = after.cur
           /\ Index' = Index + size
           /\ unit' = [kind |-> "data", index |-> Index,
                       addr |-> UnitAddress(SectionAddr, Index),
                       size |-> size, rels |-> after.printed,
                       pend |-> PendingOffset, ok |-> FALSE, reported |-> 0]
    /\ iters' = iters + 1
    /\ onlyUnknown' = FALSE
    /\ UNCHANGED <<pc, SI, Start, End, relocLines, objVars, auxVars>>

\* What DisAsm->getInstruction may answer for the bytes at Index: a status
\* and the size it reports.
DecodeStatus == {"Fail", "SoftFail", "Success"}
DecodeSizes == 0..Min(MaxInsn, Len(Bytes) - Index)

\* if (Size == 0) Size = 1;
UnitSize_Reported(reported) == reported
UnitSize_One(reported) == 1
UnitSize(reported) == IF reported = 0 THEN 1 ELSE reported

\* An iteration that decodes and prints one unit.
DecodeUnit ==
    /\ pc = "loop" /\ Index < End
    /\ ~DumpARMELFData
    /\ \/ DisassembleZeroes
       \/ \A over \in OverReads : countSkippableZeroBytes(SkipWindow(over)) = 0
    \* bool Disassembled = DisAsm->getInstruction(...): only Fail is false.
    /\ \E Disassembled \in {st # "Fail" : st \in DecodeStatus}, reported \in DecodeSizes :
         LET size == UnitSize(reported)
             after == RelocsAfterUnit(size)
         IN  /\ Size' = size
             /\ RelCur' = after.cur
             /\ Index' = Index + size
             \* PIP.printInst(..., Disassembled ? &Inst : nullptr, ...)
             /\ unit' = [kind |-> IF Disassembled THEN "inst" ELSE "unknown",
                         index |-> Index,
                         addr |-> UnitAddress(SectionAddr, Index),
                         size |-> size, rels |-> after.printed,
                         pend |-> PendingOffset, ok |-> Disassembled,
                         reported |-> reported]
             /\ onlyUnknown' = (onlyUnknown /\ ~Disassembled)
    /\ iters' = iters + 1
    /\ UNCHANGED <<pc, SI, Start, End, relocLines, objVars, auxVars>>

\* while (Index < End) ends; ++SI.
EndSymbol ==
    /\ pc = "loop" /\ Index >= End
    /\ pc' = "symbols"
    /\ SI' = SI + 1
    /\ unit' = NoUnit /\ iters' = 0 /\ onlyUnknown' = TRUE
    /\ UNCHANGED <<Start, End, Index, Size, RelCur, relocLines, objVars, auxVars>>

\* SI == SE: the section is done.
EndSection ==
    /\ pc = "symbols" /\ SI = SE
    /\ pc' = "done"
    /\ UNCHANGED <<SI, Start, End, Index, Size, RelCur, objVars, outVars, auxVars>>

Init == InitDriver /\ SkipIdle /\ SortIdle /\ LvpIdle /\ ExtIdle

Next ==
    \/ PrintRelocationsOnly
    \/ EnterSection
    \/ SkipSymbol
    \/ BeginSymbol
    \/ ZeroSkip
    \/ DataUnit
    \/ DecodeUnit
    \/ EndSymbol
    \/ EndSection

Spec == Init /\ [][Next]_vars

\* ---- the same loops under --start-address and --stop-address ----
\* main, line 2982, refuses a start address that is not below the stop
\* address.
StartChoices == {0, BaseAddr + 2, BaseAddr + 6, BaseAddr + SectSize + 1}
StopChoices == {BaseAddr + 1, BaseAddr + 4, BaseAddr + 9, UINT64_MAX}

\* A linked object without relocations, its section all zero bytes.
InitWindow ==
    /\ Disassemble = TRUE
    /\ IsRelocatable = FALSE
    /\ InlineRelocs = FALSE
    /\ DisassembleZeroes \in BOOLEAN
    /\ StartAddress \in StartChoices /\ StopAddress \in StopChoices
    /\ StartAddress < StopAddress
    /\ SectionAddr = BaseAddr
    /\ Bytes = Zeros(SectSize)
    /\ \E objSyms \in SeqsUpTo(SymChoices(SectionAddr), MaxSyms) :
         Symbols = SortSymbolTable(objSyms)
    /\ MappingSymbols = <<>>
    /\ ObjRels = <<>>
    /\ Rels = RelocMapOf(ObjRels)
    /\ pc = "section" /\ SI = 0 /\ Start = 0 /\ End = 0 /\ Index = 0 /\ Size = 0
    /\ RelCur = 0
    /\ relocLines = <<>> /\ unit = NoUnit /\ iters = 0 /\ onlyUnknown = TRUE
    /\ SkipIdle /\ SortIdle /\ LvpIdle /\ ExtIdle

NextWindow ==
    \/ EnterSection
    \/ SkipSymbol
    \/ BeginSymbol
    \/ ZeroSkip
    \/ DataUnit
    \/ DecodeUnit
    \/ EndSymbol
    \/ EndSection

SpecWindow == InitWindow /\ [][NextWindow]_vars

\* The least of a set of addresses.
Least(S) == CHOOSE m \in S : \A x \in S : m <= x
\* The addresses that may end the range of the symbol at hand.
RangeEnds ==
    {SectionAddr + SectSize, StopAddress}
       \cup (IF SI + 1 < Len(Symbols) THEN {Symbols[SI + 2].Addr} ELSE {})

IsUnit(u) == u.kind \in {"inst", "unknown", "data"}
\* A step of the instruction loop: one iteration of `while (Index < End)`.
LoopStep == pc = "loop" /\ iters' = iters + 1

\* C1: every iteration of the instruction loop strictly increases Index, by
\* the zero-skip count, the data-unit size or max(decodedSize, 1), and the
\* loop over [Start, End) makes at most End - Start iterations.
C1_ForwardProgress ==
    [][LoopStep =>
          /\ Index' > Index
          /\ unit'.kind = "skip" => Index' - Index = unit'.size /\ unit'.size >= MinZeroRun
          /\ unit'.kind = "data" => Index' - Index \in {1, 2, 4}
          /\ unit'.kind \in {"inst", "unknown"} =>
                Index' - Index = Max(unit'.reported, 1)
          /\ iters' <= End - Start]_vars

C1_Witness ==
    /\ pc = "loop" /\ Index >= End
    /\ iters = End - Start
    /\ iters >= 4
    /\ unit.kind = "unknown" /\ unit.reported = 0

\* C2 (as claimed): a decode failure prints one placeholder line and
\* advances Index by exactly 1 byte.
C2_FailureAdvancesOne_Claimed ==
    [][(LoopStep /\ unit'.kind \in {"inst", "unknown"} /\ ~unit'.ok) =>
          /\ unit'.kind = "unknown"
          /\ Index' = Index + 1
          /\ pc' = "loop"]_vars

\* C2 (amended): a decode failure prints one placeholder line, advances
\* Index by max(Size, 1) for the Size the decoder reported (1 byte exactly
\* when it reports 0 or 1) and the loop goes on.
C2_FailureAdvances ==
    [][(LoopStep /\ unit'.kind \in {"inst", "unknown"} /\ ~unit'.ok) =>
          /\ unit'.kind = "unknown"
          /\ Index' = Index + Max(unit'.reported, 1)
          /\ (unit'.reported <= 1 => Index' = Index + 1)
          /\ pc' = "loop"]_vars

\* Four undecodable bytes, four placeholder lines.
C2_Witness ==
    /\ pc = "loop" /\ Index = End
    /\ End - Start = 4
    /\ onlyUnknown /\ iters = 4

\* The relocations of the section that are not hidden and lie in [lo, hi),
\* in the order of Rels.
RECURSIVE OffsetsOf(_)
OffsetsOf(rels) ==
    IF rels = <<>> THEN <<>> ELSE <<rels[1].Offset>> \o OffsetsOf(Tail(rels))
VisibleRelocsIn(lo, hi) ==
    OffsetsOf(SelectSeq(Rels, LAMBDA r : ~r.Hidden /\ lo <= r.Offset /\ r.Offset < hi))

\* C5 (as claimed): with a relocation pending at offset R, the window of a
\* zero skip at Index is [Index, R): the skip starts at or before R, does
\* not move Index beyond R, and no relocation the driver displays lies
\* strictly inside the skipped region.
C5_SkipClampedAtRelocation ==
    (pc = "loop" /\ unit.kind = "skip" /\ InlineRelocs /\ unit.pend # -1) =>
        /\ unit.index <= unit.pend
        /\ Index <= unit.pend
        /\ \A i \in (RelCur + 1)..Len(Rels) :
              ~(~Rels[i].Hidden /\ unit.index < Rels[i].Offset /\ Rels[i].Offset < Index)

\* C7: the address used for the current unit equals SectionAddr + Index.
C7_AddressInvariant ==
    (pc = "loop" /\ IsUnit(unit)) => unit.addr = SectionAddr + unit.index

C7_Witness ==
    /\ pc = "loop" /\ unit.kind = "inst"
    /\ SectionAddr # 0
    /\ iters = 2 /\ unit.index >= MinZeroRun
    /\ unit.addr = SectionAddr + unit.index

\* C9 (as claimed): the relocation lines printed after the unit at
\* [Index, Index+Size) are exactly the relocations of the section that are
\* not hidden and whose offset lies in [Index, Index+Size), in ascending
\* offset order.
C9_RelocsOfUnit ==
    (pc = "loop" /\ IsUnit(unit)) =>
        unit.rels = VisibleRelocsIn(unit.index, unit.index + unit.size)

\* C10: for an object that is not relocatable, relocation printing, alone
\* or interleaved with the disassembly, prints no relocation line and the
\* run goes on to its end.
C10_NoRelocsWhenLinked ==
    ~IsRelocatable =>
        /\ relocLines = <<>>
        /\ Rels = <<>>
        /\ unit.rels = <<>>
        /\ pc \in {"dump", "section", "symbols", "loop", "done"}

C10_Witness ==
    /\ ~IsRelocatable /\ InlineRelocs /\ ObjRels # <<>>
    /\ pc = "done"

\* The relocations the loop after a unit walks over when it moves the
\* cursor from `from` to `to` and does not pass over in silence.
WalkedRelocs(from, to) ==
    OffsetsOf(SelectSeq(SubSeq(Rels, from + 1, to),
                        LAMBDA r : ~r.Hidden /\ SectionAddr + r.Offset >= StartAddress))

\* C22: within a section the symbol cursor and the relocation cursor only
\* move forward; the relocation cursor is at the first relocation of the
\* section when the section begins and moves only in the loop after a unit,
\* which prints relocations it moves over and no other: each relocation of
\* the section is printed at most once.
C22_CursorsForward ==
    /\ [][/\ SI' >= SI /\ RelCur' >= RelCur
          /\ RelCur' # RelCur => unit' # unit /\ IsUnit(unit')
          /\ (unit' # unit /\ IsUnit(unit')) =>
                unit'.rels = WalkedRelocs(RelCur, RelCur')]_vars
    /\ [](pc = "section" => RelCur = 0 /\ SI = 0)
    /\ [](RelCur <= Len(Rels) /\ SI <= Len(Symbols))

\* Two relocations printed after two units of the second symbol.
C22_Witness ==
    /\ pc = "loop" /\ IsUnit(unit) /\ SI >= 1
    /\ RelCur = 2 /\ Len(unit.rels) = 1 /\ iters >= 2

C29_SkipWithinRange ==
    (pc = "loop" /\ unit.kind = "skip") =>
        /\ unit.index + unit.size <= End
        /\ Index <= End

\* C15 (as claimed): when the symbol table of a disassembled section is
\* empty or its first symbol is not at the base address of the section,
\* and only then, a symbol with an empty name, of type Function for a text
\* section, is put in front of the table at the section base.
C15_DummySymbol ==
    [][(pc = "section" /\ pc' = "symbols") =>
          IF Symbols = <<>> \/ Symbols[1].Addr # SectionAddr
          THEN Symbols' = <<SymbolInfoTy(SectionAddr, <<>>, "STT_FUNC")>> \o Symbols
          ELSE Symbols' = Symbols]_vars

(***************************************************************************)
(* disassembleObject: building the symbol index                            *)
(***************************************************************************)
\* ---- bounds of the symbol index ----
MaxFound == 3           \* symbols the object has

FoundAddrs == {16, 32}
FoundNames == {<<"a">>, <<"b">>, <<"c">>}
\* createSymbolInfo(Obj, Symbol) of the symbols an object may hold.
FoundChoices == {SymbolInfoTy(a, n, "STT_FUNC") : a \in FoundAddrs, n \in FoundNames}

InitSort ==
    /\ SecSyms = <<>> /\ AbsoluteSymbols = <<>>
    /\ sortPc = "collect"
    /\ SkipIdle /\ DrvIdle /\ LvpIdle /\ ExtIdle

\* One turn of `for (const SymbolRef &Symbol : Obj->symbols())` for a symbol
\* that is kept: it goes to the table of its section, or to the absolute
\* symbols when it has none.
PushSymbol ==
    /\ sortPc = "collect"
    /\ Len(SecSyms) + Len(AbsoluteSymbols) < MaxFound
    /\ \E sym \in FoundChoices, hasSection \in BOOLEAN :
         IF hasSection
         THEN SecSyms' = Append(SecSyms, sym) /\ UNCHANGED AbsoluteSymbols
         ELSE AbsoluteSymbols' = Append(AbsoluteSymbols, sym) /\ UNCHANGED SecSyms
    /\ UNCHANGED <<sortPc, skipVars, drvVars, lvpVars, extVars>>

\* The two stable sorts that follow the collection.
SortSymbols ==
    /\ sortPc = "collect"
    /\ SecSyms' = SortSymbolTable(SecSyms)
    /\ AbsoluteSymbols' = SortSymbolTable(AbsoluteSymbols)
    /\ sortPc' = "sorted"
    /\ UNCHANGED <<skipVars, drvVars, lvpVars, extVars>>

NextSort == PushSymbol \/ SortSymbols

SpecSort == InitSort /\ [][NextSort]_vars

\* The symbols of s taken address by address, lowest address first, each
\* group in the order it has in s.
RECURSIVE GroupedByAddr(_, _)
GroupedByAddr(s, addrs) ==
    IF addrs = {} THEN <<>>
    ELSE LET a == CHOOSE x \in addrs : \A y \in addrs : x <= y
         IN  SelectSeq(s, LAMBDA e : e.Addr = a) \o GroupedByAddr(s, addrs \ {a})
InDiscoveryOrder(s) == GroupedByAddr(s, {s[i].Addr : i \in 1..Len(s)})
StabilityExample ==
    <<SymbolInfoTy(16, <<"b">>, "STT_FUNC"), SymbolInfoTy(16, <<"a">>, "STT_FUNC"),
      SymbolInfoTy(32, <<"c">>, "STT_FUNC")>>

\* C6: the sort of the symbol index leaves the section's table and the
\* absolute table sorted by address ascending with the symbols of one
\* address in their discovery order, whatever their names:
\* [(0x10,"b"), (0x10,"a"), (0x20,"c")] stays as it is.
C6_StableSymbolSort ==
    [][(sortPc = "collect" /\ sortPc' = "sorted") =>
          /\ SecSyms' = InDiscoveryOrder(SecSyms)
          /\ AbsoluteSymbols' = InDiscoveryOrder(AbsoluteSymbols)
          /\ \A i \in 1..(Len(SecSyms') - 1) : SecSyms'[i].Addr <= SecSyms'[i + 1].Addr
          /\ \A i \in 1..(Len(AbsoluteSymbols') - 1) :
                AbsoluteSymbols'[i].Addr <= AbsoluteSymbols'[i + 1].Addr
          /\ (SecSyms = StabilityExample => SecSyms' = StabilityExample)]_vars

C6_Witness ==
    /\ sortPc = "sorted"
    /\ SecSyms = StabilityExample

(***************************************************************************)
(* LiveVariablePrinter                                                     *)
(***************************************************************************)
\* Column::NullVarIdx is the largest unsigned, (unsigned)-1.
NullVarIdx == -1

\* ---- bounds of the live-variable printer ----
MaxVars == 2            \* LiveVariables.size()
MaxAddr == 3            \* the addresses of the function are 0..MaxAddr

\* Section.getIndex() of the sections update is called for; the variables
\* are those of section 0.
SectionIndices == {0, 1}

\* object::SectionedAddress
SectionedAddress(a, sec) == [Address |-> a, SectionIndex |-> sec]
\* LiveVariable: LocExpr.Range, or None.
LiveVariable(lo, hi, sec) == [HasRange |-> TRUE, LowPC |-> lo, HighPC |-> hi,
                              SectionIndex |-> sec]
NoRange == [HasRange |-> FALSE, LowPC |-> 0, HighPC |-> 0, SectionIndex |-> 0]
RangeChoices ==
    {NoRange} \cup
    UNION {{LiveVariable(lo, hi, 0) : hi \in (lo + 1)..(MaxAddr + 1)} : lo \in 0..MaxAddr}

\* LiveVariable::liveAtAddress
liveAtAddress(LV, Addr) ==
    IF ~LV.HasRange THEN FALSE
    ELSE /\ LV.SectionIndex = Addr.SectionIndex
         /\ LV.LowPC <= Addr.Address
         /\ LV.HighPC > Addr.Address

\* Column(), and Column::isActive
Column == [VarIdx |-> NullVarIdx, LiveIn |-> FALSE, LiveOut |-> FALSE,
           MustDrawLabel |-> FALSE]
isActive(col) == col.VarIdx # NullVarIdx

\* ActiveCols.grow(n): the array grown to n columns, the new ones Column().
grow(cols, n) ==
    IF n > Len(cols) THEN cols \o [i \in 1..(n - Len(cols)) |-> Column] ELSE cols

\* A findFreeColumn that hands out column 0 whoever holds it.
findFreeColumn_First(cols) ==
    [ColIdx |-> 0, Cols |-> grow(cols, 1)]

\* A findFreeColumn that hands out the highest free column.
findFreeColumn_Last(cols) ==
    IF \E c \in 1..Len(cols) : ~isActive(cols[c])
    THEN [ColIdx |-> (CHOOSE c \in 1..Len(cols) :
                         /\ ~isActive(cols[c])
                         /\ \A d \in (c + 1)..Len(cols) : isActive(cols[d])) - 1,
          Cols |-> cols]
    ELSE [ColIdx |-> Len(cols), Cols |-> grow(cols, Max(Len(cols) * 2, 1))]

\* findFreeColumn: the lowest free column, or the first column of the
\* array grown to twice its size; ColIdx and the array after the call.
findFreeColumn(cols) ==
    IF \E c \in 1..Len(cols) : ~isActive(cols[c])
    THEN [ColIdx |-> (CHOOSE c \in 1..Len(cols) :
                         /\ ~isActive(cols[c])
                         /\ \A d \in 1..(c - 1) : isActive(cols[d])) - 1,
          Cols |-> cols]
    ELSE [ColIdx |-> Len(cols), Cols |-> grow(cols, Max(Len(cols) * 2, 1))]

\* A pass 1 that releases no column.
UpdatePass1_KeepAll(cols, LVs, this, next) ==
    [c \in 1..Len(cols) |->
        IF ~isActive(cols[c]) THEN cols[c]
        ELSE [cols[c] EXCEPT !.LiveIn = liveAtAddress(LVs[cols[c].VarIdx + 1], this),
                             !.LiveOut = liveAtAddress(LVs[cols[c].VarIdx + 1], next)]]

\* update, pass 1: the columns in use take the liveness of their variable
\* at the two addresses and are released when it is live at neither.
UpdatePass1(cols, LVs, this, next) ==
    [c \in 1..Len(cols) |->
        IF ~isActive(cols[c]) THEN cols[c]
        ELSE LET LV == LVs[cols[c].VarIdx + 1]
                 in == liveAtAddress(LV, this)
                 out == liveAtAddress(LV, next)
             IN  [cols[c] EXCEPT !.LiveIn = in, !.LiveOut = out,
                                 !.VarIdx = IF ~in /\ ~out THEN NullVarIdx ELSE @]]

\* A pass 1 that records no variable.
CheckedVarIdxs_None(cols) == {}
\* The variables pass 1 looked at: those that had a column when it began.
CheckedVarIdxs(cols) == {cols[c].VarIdx : c \in {d \in 1..Len(cols) : isActive(cols[d])}}

\* update, pass 2, from variable VarIdx on: every variable without a column
\* that is live at one of the two addresses gets a free column.
RECURSIVE UpdatePass2(_, _, _, _, _, _)
UpdatePass2(cols, LVs, Checked, VarIdx, this, next) ==
    IF VarIdx >= Len(LVs) THEN cols
    ELSE LET LV == LVs[VarIdx + 1]
             in == liveAtAddress(LV, this)
             out == liveAtAddress(LV, next)
             free == findFreeColumn(cols)
         IN  IF VarIdx \in Checked \/ (~in /\ ~out)
             THEN UpdatePass2(cols, LVs, Checked, VarIdx + 1, this, next)
             ELSE UpdatePass2(
                      [free.Cols EXCEPT ![free.ColIdx + 1] =
                          [VarIdx |-> VarIdx, LiveIn |-> in, LiveOut |-> out,
                           MustDrawLabel |-> TRUE]],
                      LVs, Checked, VarIdx + 1, this, next)

\* LiveVariablePrinter::update: ActiveCols after the call.
update(cols, LVs, this, next, IncludeDefinedVars) ==
    LET pass1 == UpdatePass1(cols, LVs, this, next)
    IN  IF IncludeDefinedVars
        THEN UpdatePass2(pass1, LVs, CheckedVarIdxs(cols), 0, this, next)
        ELSE pass1

\* The printer as constructed, with the variables of the compile unit added.
InitLVP ==
    /\ LiveVariables \in SeqsUpTo(RangeChoices, MaxVars)
    /\ ActiveCols = <<>>
    /\ ThisAddr = NoAddr /\ NextAddr = NoAddr
    /\ SkipIdle /\ DrvIdle /\ SortIdle /\ ExtIdle

CallUpdate ==
    /\ \E a \in 0..MaxAddr, b \in 0..(MaxAddr + 1), sec \in SectionIndices,
          IncludeDefinedVars \in BOOLEAN :
         /\ ThisAddr' = SectionedAddress(a, sec)
         /\ NextAddr' = SectionedAddress(b, sec)
         /\ ActiveCols' = update(ActiveCols, LiveVariables, ThisAddr', NextAddr',
                                 IncludeDefinedVars)
    /\ UNCHANGED <<LiveVariables, skipVars, drvVars, sortVars, extVars>>

NextLVP == CallUpdate

SpecLVP == InitLVP /\ [][NextLVP]_vars

\* The columns that hold variable v.
ColumnsOf(cols, v) == {c \in 1..Len(cols) : cols[c].VarIdx = v}

\* C8: a variable that occupies a column and is live-in or live-out at an
\* update keeps that column, and no other, through the update, whatever
\* columns the update assigns or releases for other variables.
C8_ColumnStable ==
    [][\A c \in 1..Len(ActiveCols) :
          LET v == ActiveCols[c].VarIdx
          IN  (/\ isActive(ActiveCols[c])
               /\ \/ liveAtAddress(LiveVariables[v + 1], ThisAddr')
                  \/ liveAtAddress(LiveVariables[v + 1], NextAddr'))
              => ColumnsOf(ActiveCols', v) = {c}]_vars

\* C27: after any calls of update, with any addresses and with or without
\* IncludeDefinedVars, no variable holds more than one active column.
C27_OneColumnPerVariable ==
    \A c, d \in 1..Len(ActiveCols) :
       (isActive(ActiveCols[c]) /\ ActiveCols[c].VarIdx = ActiveCols[d].VarIdx)
          => c = d

\* Two variables hold a column each, after an update that found both
\* with a column and one that gave the second its column.
C27_Witness ==
    /\ Len(ActiveCols) = 2
    /\ isActive(ActiveCols[1]) /\ isActive(ActiveCols[2])
    /\ ActiveCols[1].VarIdx # ActiveCols[2].VarIdx
    /\ ActiveCols[1].LiveIn /\ ActiveCols[2].LiveIn
    /\ ActiveCols[1].LiveOut /\ ~ActiveCols[2].LiveOut

\* The first variable sits in column 0 while the second, which took
\* column 1 after it, has come and gone.
C8_Witness ==
    /\ Len(LiveVariables) = 2
    /\ Len(ActiveCols) >= 2
    /\ ActiveCols[1].VarIdx = 0
    /\ ActiveCols[2].VarIdx = NullVarIdx /\ ActiveCols[2].MustDrawLabel
    /\ LiveVariables[1].LowPC < LiveVariables[2].LowPC
    /\ LiveVariables[2].HighPC < LiveVariables[1].HighPC
    /\ ThisAddr.Address >= LiveVariables[2].HighPC
    /\ NextAddr.Address > ThisAddr.Address
    /\ liveAtAddress(LiveVariables[1], ThisAddr)
    /\ liveAtAddress(LiveVariables[1], NextAddr)
    /\ ActiveCols[1].LiveIn /\ ActiveCols[1].LiveOut

(***************************************************************************)
(* disassembleObject: resolving a branch or memory-operand target          *)
(***************************************************************************)
\* ---- bounds of the resolver ----
MaxSecs == 2            \* sections of the object

SecAddrs == {0, 16}
SecSizes == {0, 8}
\* A section of the object: Sec.getAddress() and Sec.getSize().
SectionRef(a, sz) == [Addr |-> a, Size |-> sz]
SecChoices == {SectionRef(a, sz) : a \in SecAddrs, sz \in SecSizes}
SecDigit(i) == <<"0", "1", "2", "3", "4", "5", "6", "7", "8", "9">>[i + 1]
\* The sorted symbol tables section i at address base may have: symbols
\* f<i> at its start and g<i> 4 bytes further.
TableChoices(i, base) ==
    LET f == SymbolInfoTy(base, <<"f", SecDigit(i)>>, "STT_FUNC")
        g == SymbolInfoTy(base + 4, <<"g", SecDigit(i)>>, "STT_FUNC")
    IN  {<<>>, <<f>>, <<g>>, <<f, g>>}
AbsChoices ==
    {<<>>, <<SymbolInfoTy(2, <<"a", "b", "s">>, "STT_NOTYPE")>>,
     <<SymbolInfoTy(18, <<"a", "b", "s">>, "STT_NOTYPE")>>}
TargetChoices == {0, 2, 4, 16, 18, 20, 24}
\* ("L" + Twine(LabelCount)).str() for the label counts of the model.
LabelName(n) == <<"L", SecDigit(n)>>
\* The label maps of a symbol range, as far as a target T can tell them
\* apart: no label at T, or one.
LabelChoices(T) ==
    {<<>>, [a \in {T} |-> LabelName(0)], [a \in {T, T + 4} |-> LabelName(IF a = T THEN 1 ELSE 0)]}

\* The id of the absolute-symbol table among the candidate tables; the
\* table of a section has the index of the section.
AbsTable == 0
TableOf(id) == IF id = AbsTable THEN AbsoluteSymbols ELSE AllSymbols[id]

\* SectionAddresses as built and sorted at lines 1581-1588.
BuildSectionAddresses(secs) ==
    stable_sort("SectionAddresses",
                [i \in 1..Len(secs) |->
                    [first |-> secs[i].Addr,
                     second |-> [Index |-> i, Size |-> secs[i].Size]]])

\* llvm::partition_point(Range, [=](O) { return O <= Target; }) as the
\* number of elements before the iterator it returns; key is "first" for
\* SectionAddresses and "Addr" for a symbol table.
RECURSIVE partition_point(_, _, _)
partition_point(range, key, T) ==
    IF range # <<>> /\ range[1][key] <= T
    THEN 1 + partition_point(Tail(range), key, T)
    ELSE 0

\* while (It != SectionAddresses.begin()) { --It; ... }: the sections whose
\* tables become candidates, in the order they are pushed.
RECURSIVE WalkSections(_, _, _)
WalkSections(It, TargetSecAddr, pushed) ==
    IF It = 0 THEN pushed
    ELSE LET cur == SectionAddresses[It]
             tsa == IF TargetSecAddr = 0 THEN cur.first ELSE TargetSecAddr
         IN  IF cur.first # tsa THEN pushed
             ELSE WalkSections(It - 1, tsa, Append(pushed, cur.second.Index))

\* A resolver that looks into the tables of all sections at or below the
\* target whatever the kind of the object.
TargetSectionSymbols_AllSections(T, cur) ==
    WalkSections(partition_point(SectionAddresses, "first", T), 0, <<>>)
        \o <<AbsTable>>

\* A resolver that only looks at the first section it finds.
TargetSectionSymbols_FirstOnly(T, cur) ==
    (IF ~IsRelocatable
     THEN LET walked == WalkSections(partition_point(SectionAddresses, "first", T), 0, <<>>)
          IN  IF walked = <<>> THEN <<>> ELSE <<walked[1]>>
     ELSE <<cur>>) \o <<AbsTable>>

\* TargetSectionSymbols: the candidate tables, in the order they are tried.
TargetSectionSymbols(T, cur) ==
    (IF ~IsRelocatable
     THEN WalkSections(partition_point(SectionAddresses, "first", T), 0, <<>>)
     ELSE <<cur>>) \o <<AbsTable>>

\* The last symbol of the first candidate table that has a symbol at or
\* below the target.
RECURSIVE FindTargetSym(_, _)
FindTargetSym(cands, T) ==
    IF cands = <<>> THEN NoSym
    ELSE LET It == partition_point(TableOf(cands[1]), "Addr", T)
         IN  IF It # 0
             THEN [found |-> TRUE, tab |-> cands[1], sym |-> TableOf(cands[1])[It]]
             ELSE FindTargetSym(Tail(cands), T)

HexChars == <<"0", "1", "2", "3", "4", "5", "6", "7", "8", "9",
              "A", "B", "C", "D", "E", "F">>
\* Twine::utohexstr(Disp): the digits of Disp in base 16.
RECURSIVE utohexstr(_)
utohexstr(n) ==
    IF n < 16 THEN <<HexChars[n + 1]>>
    ELSE utohexstr(n \div 16) \o <<HexChars[(n % 16) + 1]>>

LabelAvailable(labels, T) == T \in DOMAIN labels

\* An annotation that prefers the local label whenever there is one.
PrintTargetAnnotation_LabelFirst(T, ts, labels) ==
    IF LabelAvailable(labels, T) THEN <<" ", "<">> \o labels[T] \o <<">">>
    ELSE IF ts.found
         THEN <<" ", "<">> \o ts.sym.Name
              \o (IF T - ts.sym.Addr = 0 THEN <<>>
                  ELSE <<"+", "0", "x">> \o utohexstr(T - ts.sym.Addr))
              \o <<">">>
         ELSE <<>>

\* What lines 1945-1969 print for the target: the characters written.
PrintTargetAnnotation(T, ts, labels) ==
    IF ts.found
    THEN LET Disp == T - ts.sym.Addr
             TargetName == ts.sym.Name
         IN  <<" ", "<">>
             \o (IF Disp = 0 THEN TargetName
                 ELSE IF ~LabelAvailable(labels, T)
                      THEN TargetName \o <<"+", "0", "x">> \o utohexstr(Disp)
                      ELSE labels[T])
             \o <<">">>
    ELSE IF LabelAvailable(labels, T)
         THEN <<" ", "<">> \o labels[T] \o <<">">>
         ELSE <<>>

AllTableChoices == UNION {TableChoices(i, a) : i \in 1..(MaxSecs + 1), a \in SecAddrs}

\* An object whose symbol index and section addresses are built.
InitResolve ==
    /\ IsRelocatable \in BOOLEAN
    /\ ObjSections \in (SeqsUpTo(SecChoices, MaxSecs) \ {<<>>})
    /\ AllSymbols \in {t \in [1..Len(ObjSections) -> AllTableChoices] :
                          \A i \in 1..Len(ObjSections) :
                              t[i] \in TableChoices(i, ObjSections[i].Addr)}
    /\ AbsoluteSymbols \in AbsChoices
    /\ SectionAddresses = BuildSectionAddresses(ObjSections)
    /\ CurSection = 0 /\ Target = 0 /\ AllLabels = <<>>
    /\ TargetSym = NoSym /\ Annotation = <<>>
    /\ resPc = "ready"
    /\ SecSyms = <<>> /\ sortPc = "idle"
    /\ SkipIdle /\ DrvRestIdle /\ LvpIdle /\ MoreIdle

\* The unit at hand is a decoded instruction of section CurSection with a
\* target: lines 1883-1970.
ResolveTarget ==
    /\ resPc = "ready"
    /\ \E cur \in 1..Len(ObjSections), T \in TargetChoices :
         \E labels \in LabelChoices(T) :
            /\ CurSection' = cur
            /\ Target' = T
            /\ AllLabels' = labels
            /\ TargetSym' = FindTargetSym(TargetSectionSymbols(T, cur), T)
            /\ Annotation' = PrintTargetAnnotation(T, TargetSym', labels)
    /\ resPc' = "resolved"
    /\ UNCHANGED <<ObjSections, AllSymbols, SectionAddresses,
                   skipVars, drvVars, sortVars, lvpVars, moreVars>>

NextResolve == ResolveTarget

SpecResolve == InitResolve /\ [][NextResolve]_vars

\* ---- the loop over the sections, and the targets resolved in it ----
\* The loop reaches the next section of the object (lines 1636-1686): a
\* section without bytes is passed over, any other gets its dummy symbol.
\* Symbols is a reference to AllSymbols[Section].
ProcessSection ==
    /\ resPc = "ready"
    /\ CurSection < Len(ObjSections)
    /\ CurSection' = CurSection + 1
    /\ AllSymbols' =
          IF ObjSections[CurSection + 1].Size = 0 THEN AllSymbols
          ELSE [AllSymbols EXCEPT ![CurSection + 1] =
                   InsertDummy(@, ObjSections[CurSection + 1].Addr)]
    /\ UNCHANGED <<ObjSections, SectionAddresses, Target, AllLabels, TargetSym,
                   Annotation, resPc,
                   skipVars, drvVars, sortVars, lvpVars, moreVars>>

\* An instruction of the section at hand has a target: lines 1883-1970.
ResolveInSection ==
    /\ resPc = "ready"
    /\ CurSection >= 1 /\ ObjSections[CurSection].Size # 0
    /\ \E T \in TargetChoices :
         /\ Target' = T
         /\ TargetSym' = FindTargetSym(TargetSectionSymbols(T, CurSection), T)
         /\ Annotation' = PrintTargetAnnotation(T, TargetSym', AllLabels)
    /\ UNCHANGED <<ObjSections, AllSymbols, SectionAddresses, CurSection,
                   AllLabels, resPc,
                   skipVars, drvVars, sortVars, lvpVars, moreVars>>

NextSections == ProcessSection \/ ResolveInSection

SpecSections == InitResolve /\ [][NextSections]_vars

\* C21 (as claimed): once built, the symbol tables of the sections and the
\* absolute symbols are not modified by the loop over the sections, so a
\* target resolves against a section's table alike before and after that
\* section is processed.
C21_TablesReadOnly ==
    [][AllSymbols' = AllSymbols /\ AbsoluteSymbols' = AbsoluteSymbols]_vars

\* The value of a string of base-16 digits.
HexDigitValue(c) == (CHOOSE i \in 1..16 : HexChars[i] = c) - 1
RECURSIVE HexValue(_)
HexValue(digits) ==
    IF digits = <<>> THEN 0
    ELSE 16 * HexValue(SubSeq(digits, 1, Len(digits) - 1))
         + HexDigitValue(digits[Len(digits)])
Bracketed(text) == <<" ", "<">> \o text \o <<">">>
Resolved == resPc = "resolved"

\* C11: with matched symbol S and label map L the annotation of target T
\* is <S.name> when T = S.addr, label or not; <S.name+0x(T - S.addr)> when
\* T > S.addr and L has no label at T; <label> when T > S.addr and L has a
\* label at T; <label> when no symbol matches and L has a label at T;
\* nothing when there is neither.
C11_Annotation ==
    Resolved =>
        LET S == TargetSym.sym
            hasLabel == Target \in DOMAIN AllLabels
            plus == Len(S.Name) + 5
        IN  /\ (TargetSym.found /\ Target = S.Addr) => Annotation = Bracketed(S.Name)
            /\ (TargetSym.found /\ Target > S.Addr /\ ~hasLabel) =>
                  /\ Len(Annotation) > plus + 1
                  /\ SubSeq(Annotation, 1, plus) = <<" ", "<">> \o S.Name \o <<"+", "0", "x">>
                  /\ Annotation[Len(Annotation)] = ">"
                  /\ HexValue(SubSeq(Annotation, plus + 1, Len(Annotation) - 1))
                        = Target - S.Addr
                  /\ (Target - S.Addr = 4 =>
                        Annotation = Bracketed(S.Name \o <<"+", "0", "x", "4">>))
            /\ (TargetSym.found /\ Target > S.Addr /\ hasLabel) =>
                  Annotation = Bracketed(AllLabels[Target])
            /\ (~TargetSym.found /\ hasLabel) => Annotation = Bracketed(AllLabels[Target])
            /\ (~TargetSym.found /\ ~hasLabel) => Annotation = <<>>
            /\ TargetSym.found => Target >= S.Addr

\* A target 18 bytes past its symbol without a label, and so two digits.
C11_Witness ==
    /\ Resolved
    /\ TargetSym.found /\ Target - TargetSym.sym.Addr = 18
    /\ Target \notin DOMAIN AllLabels
    /\ Annotation = Bracketed(TargetSym.sym.Name \o <<"+", "0", "x", "1", "2">>)

\* The last symbol of table id at or below T, if there is one.
HasSymAtOrBelow(id, T) == \E i \in 1..Len(TableOf(id)) : TableOf(id)[i].Addr <= T
LastSymAtOrBelow(id, T) ==
    TableOf(id)[CHOOSE i \in 1..Len(TableOf(id)) :
                   /\ TableOf(id)[i].Addr <= T
                   /\ \A j \in (i + 1)..Len(TableOf(id)) : TableOf(id)[j].Addr > T]

\* C12: in a relocatable object the target is resolved against the table
\* of the section being disassembled and, when that has no symbol at or
\* below the target, against the absolute symbols; no other table is used,
\* nearer symbol or not.
C12_RelocatableSameSection ==
    (Resolved /\ IsRelocatable) =>
        IF HasSymAtOrBelow(CurSection, Target)
        THEN /\ TargetSym.found /\ TargetSym.tab = CurSection
             /\ TargetSym.sym = LastSymAtOrBelow(CurSection, Target)
        ELSE IF HasSymAtOrBelow(AbsTable, Target)
             THEN /\ TargetSym.found /\ TargetSym.tab = AbsTable
                  /\ TargetSym.sym = LastSymAtOrBelow(AbsTable, Target)
             ELSE ~TargetSym.found

\* Another section holds a symbol nearer to the target than the symbol of
\* the current section that was taken.
C12_Witness ==
    /\ Resolved /\ IsRelocatable
    /\ TargetSym.found /\ TargetSym.tab = CurSection
    /\ \E i \in 1..Len(ObjSections) :
          /\ i # CurSection
          /\ \E k \in 1..Len(AllSymbols[i]) :
                /\ AllSymbols[i][k].Addr <= Target
                /\ AllSymbols[i][k].Addr > TargetSym.sym.Addr

\* The sections whose base address is the largest one at or below T.
SectionsNearest(T) ==
    {i \in 1..Len(ObjSections) :
        /\ ObjSections[i].Addr <= T
        /\ \A j \in 1..Len(ObjSections) :
              ObjSections[j].Addr <= T => ObjSections[j].Addr <= ObjSections[i].Addr}

\* C13: in an object that is not relocatable the candidate tables for T
\* are those of the sections whose base address is the largest one at or
\* below T, a base of 0 included, non-empty sections before empty ones,
\* and then the absolute symbols; the first table with a symbol at or below
\* T gives its last such symbol.
C13_NearestSections ==
    (Resolved /\ ~IsRelocatable) =>
        LET cands == SectionsNearest(Target)
            hits == {i \in cands : HasSymAtOrBelow(i, Target)}
        IN  IF hits # {}
            THEN /\ TargetSym.found /\ TargetSym.tab \in hits
                 /\ TargetSym.sym = LastSymAtOrBelow(TargetSym.tab, Target)
                 /\ \A j \in hits :
                       ~(ObjSections[j].Size > 0 /\ ObjSections[TargetSym.tab].Size = 0)
            ELSE IF HasSymAtOrBelow(AbsTable, Target)
                 THEN /\ TargetSym.found /\ TargetSym.tab = AbsTable
                      /\ TargetSym.sym = LastSymAtOrBelow(AbsTable, Target)
                 ELSE ~TargetSym.found

\* Two sections at address 0, the empty one first in the object, both with
\* a symbol at or below the target: the symbol of the non-empty one wins.
C13_Witness ==
    /\ Resolved /\ ~IsRelocatable
    /\ Len(ObjSections) = 2
    /\ ObjSections[1] = SectionRef(0, 0) /\ ObjSections[2].Addr = 0
    /\ ObjSections[2].Size > 0
    /\ HasSymAtOrBelow(1, Target) /\ HasSymAtOrBelow(2, Target)
    /\ TargetSym.found /\ TargetSym.tab = 2

(***************************************************************************)
(* dumpInput, dumpArchive, dumpObject: the objects of a run, and the       *)
(* warnings about the requested symbols disassembleObject did not find     *)
(***************************************************************************)
MaxObjs == 2
MaxObjSyms == 2
SymNames == {<<"f">>, <<"g">>}
\* A symbol as the symbol loop sees it: its name, its address and the
\* address of the section whose table holds it.
ObjSymChoices ==
    {[Name |-> n, Addr |-> a, SectionAddr |-> BaseAddr] :
        n \in SymNames, a \in {BaseAddr, BaseAddr + 4}}
ObjChoices ==
    {t \in SeqsUpTo(ObjSymChoices, MaxObjSyms) :
        \A i \in 1..(Len(t) - 1) : t[i].Addr <= t[i + 1].Addr}

\* Lines 1712-1719: whether the visit of the symbol puts its name into
\* FoundDisasmSymbolSet.
SymbolFound(requested, sym, stop) ==
    /\ ~(requested # {} /\ sym.Name \notin requested)
    /\ ~(sym.Addr < sym.SectionAddr \/ stop <= sym.Addr)

set_difference(S1, S2) == S1 \ S2

MissingDisasmSymbolSet_All(requested, found) == requested

\* Lines 2015-2016.
MissingDisasmSymbolSet(requested, found) == set_difference(requested, found)

\* The orders in which the keys of a StringSet may be visited.
KeyOrders(S) ==
    {q \in SeqsUpTo(S, Cardinality(S)) :
        Len(q) = Cardinality(S) /\ {q[i] : i \in 1..Len(q)} = S}

InitMissing ==
    /\ DisasmSymbolSet \in SUBSET SymNames
    /\ ObjFiles \in (SeqsUpTo(ObjChoices, MaxObjs) \ {<<>>})
    /\ ObjIdx = 1 /\ SymIdx = 0
    /\ FoundDisasmSymbolSet = {} /\ Warnings = <<>> /\ missPc = "run"
    /\ IsRelocatable = FALSE
    /\ StartAddress = 0 /\ StopAddress \in {BaseAddr + 4, UINT64_MAX}
    /\ DrvObjIdle /\ SkipIdle /\ SortIdle /\ LvpIdle /\ ResIdle /\ ClIdle /\ PrIdle
    /\ LateIdle

\* One turn of the symbol loop, lines 1705-1719.
VisitSymbol ==
    /\ missPc = "run"
    /\ SymIdx < Len(ObjFiles[ObjIdx])
    /\ SymIdx' = SymIdx + 1
    /\ FoundDisasmSymbolSet' =
          IF SymbolFound(DisasmSymbolSet, ObjFiles[ObjIdx][SymIdx + 1], StopAddress)
          THEN FoundDisasmSymbolSet \cup {ObjFiles[ObjIdx][SymIdx + 1].Name}
          ELSE FoundDisasmSymbolSet
    /\ UNCHANGED <<DisasmSymbolSet, ObjFiles, ObjIdx, Warnings, missPc,
                   skipVars, drvVars, sortVars, lvpVars, resVars, clVars, prVars,
                   lateVars>>

\* The end of disassembleObject, lines 2015-2018, and the return to the
\* loop over the objects: the next call starts with an empty local set.
FinishObject ==
    /\ missPc = "run"
    /\ SymIdx = Len(ObjFiles[ObjIdx])
    /\ \E q \in KeyOrders(MissingDisasmSymbolSet(DisasmSymbolSet, FoundDisasmSymbolSet)) :
          Warnings' = Warnings \o [i \in 1..Len(q) |-> [Sym |-> q[i], FileName |-> ObjIdx]]
    /\ FoundDisasmSymbolSet' = {}
    /\ SymIdx' = 0
    /\ IF ObjIdx < Len(ObjFiles)
       THEN ObjIdx' = ObjIdx + 1 /\ missPc' = missPc
       ELSE ObjIdx' = ObjIdx /\ missPc' = "done"
    /\ UNCHANGED <<DisasmSymbolSet, ObjFiles,
                   skipVars, drvVars, sortVars, lvpVars, resVars, clVars, prVars,
                   lateVars>>

NextMissing == VisitSymbol \/ FinishObject

SpecMissing == InitMissing /\ [][NextMissing]_vars

WarningCount(sym, file) ==
    Cardinality({i \in 1..Len(Warnings) :
                    Warnings[i].Sym = sym /\ Warnings[i].FileName = file})
WarningsOf(sym) == Cardinality({i \in 1..Len(Warnings) : Warnings[i].Sym = sym})
\* The object is one whose disassembly has ended.
Finished(o) == o < ObjIdx \/ missPc = "done"
FoundIn(sym, o) ==
    \E i \in 1..Len(ObjFiles[o]) :
        /\ ObjFiles[o][i].Name = sym
        /\ SymbolFound(DisasmSymbolSet, ObjFiles[o][i], StopAddress)

\* C14 (amended): a requested name gets exactly one warning for every
\* object whose disassembly has ended without finding it, naming that
\* object, and no other warning; the warnings of an object are there as
\* soon as its disassembly has ended, and the run goes on.
C14_OneWarningPerObject ==
    /\ missPc \in {"run", "done"}
    /\ \A o \in 1..Len(ObjFiles), n \in SymNames :
          WarningCount(n, o) =
             IF Finished(o) /\ n \in DisasmSymbolSet /\ ~FoundIn(n, o) THEN 1 ELSE 0
    /\ \A i \in 1..Len(Warnings) : Warnings[i].FileName \in 1..Len(ObjFiles)

C14_Witness ==
    /\ missPc = "done" /\ Len(ObjFiles) = 2
    /\ \E n \in DisasmSymbolSet :
          /\ ~FoundIn(n, 1) /\ ~FoundIn(n, 2)
          /\ WarningCount(n, 1) = 1 /\ WarningCount(n, 2) = 1
    /\ \E n \in DisasmSymbolSet : FoundIn(n, 1)

\* C14 (as claimed): a requested name found in no object of the run gets
\* exactly one warning, and warnings are printed only at the end of the run.
C14_OneWarningPerName_Claimed ==
    /\ missPc = "done" =>
          \A n \in DisasmSymbolSet :
             (\A o \in 1..Len(ObjFiles) : ~FoundIn(n, o)) => WarningsOf(n) = 1
    /\ missPc # "done" => Warnings = <<>>

(***************************************************************************)
(* collectLocalBranchTargets                                               *)
(***************************************************************************)
MaxRange == 4           \* End - Start
DecDigits == <<"0", "1", "2", "3", "4", "5", "6", "7", "8", "9">>
\* Twine(unsigned): the decimal digits of n.
RECURSIVE Twine(_)
Twine(n) ==
    IF n < 10 THEN <<DecDigits[n + 1]>>
    ELSE Twine(n \div 10) \o <<DecDigits[(n % 10) + 1]>>

\* TargetKnown && (Target >= Start && Target < End) && !Labels.count(Target)
IsNewLocalTarget_Recount(inst, labels) ==
    /\ inst.TargetKnown
    /\ inst.Target >= clStart /\ inst.Target < clEnd

IsNewLocalTarget(inst, labels) ==
    /\ inst.TargetKnown
    /\ inst.Target >= clStart /\ inst.Target < clEnd
    /\ inst.Target \notin DOMAIN labels

\* Labels[Target] = ("L" + Twine(LabelCount++)).str()
SetLabel(labels, T, count) ==
    [a \in DOMAIN labels \cup {T} |->
        IF a = T THEN <<"L">> \o Twine(count) ELSE labels[a]]

\* What getInstruction and evaluateBranch may give for the bytes at Index.
InstChoices ==
    {[Disassembled |-> d, Size |-> sz, TargetKnown |-> k, Target |-> t] :
        d \in BOOLEAN, sz \in 0..MaxInsn, k \in BOOLEAN,
        t \in (clStart - 1)..(clEnd + 1)}

\* The state at `while (Index < End)` when the function is entered with an
\* X86 target; otherwise at its first `return`.
InitLabels ==
    /\ clX86 \in BOOLEAN /\ clMIA \in BOOLEAN
    /\ \E sa \in {0, BaseAddr}, st \in {1, 2}, len \in 1..MaxRange :
          clStart = st + sa /\ clEnd = st + len + sa
    /\ clIndex = clStart
    /\ Labels = <<>> /\ LabelCount = 0 /\ clDecoded = <<>> /\ clInst = NoInst
    /\ clPc = (IF clX86 THEN "loop" ELSE "done")
    /\ SkipIdle /\ DrvIdle /\ SortIdle /\ LvpIdle /\ ResIdle /\ MissIdle /\ PrIdle
    /\ LateIdle

\* One turn of the loop, lines 1483-1500.
CollectStep ==
    /\ clPc = "loop" /\ clIndex < clEnd
    /\ \E inst \in InstChoices :
         LET size == IF inst.Size = 0 THEN 1 ELSE inst.Size
             new == inst.Disassembled /\ clMIA /\ IsNewLocalTarget(inst, Labels)
         IN  /\ clInst' = inst
             /\ Labels' = IF new THEN SetLabel(Labels, inst.Target, LabelCount)
                          ELSE Labels
             /\ LabelCount' = IF new THEN LabelCount + 1 ELSE LabelCount
             /\ clIndex' = clIndex + size
    /\ clDecoded' = Append(clDecoded, clIndex)
    /\ UNCHANGED <<clX86, clMIA, clStart, clEnd, clPc,
                   skipVars, drvVars, sortVars, lvpVars, resVars, missVars, prVars,
                   lateVars>>

\* while (Index < End) ends.
CollectDone ==
    /\ clPc = "loop" /\ clIndex >= clEnd
    /\ clPc' = "done"
    /\ UNCHANGED <<clX86, clMIA, clStart, clEnd, clIndex, Labels, LabelCount,
                   clDecoded, clInst,
                   skipVars, drvVars, sortVars, lvpVars, resVars, missVars, prVars,
                   lateVars>>

NextLabels == CollectStep \/ CollectDone

SpecLabels == InitLabels /\ [][NextLabels]_vars

\* C17: the range is decoded once, front to back; the target of a decoded
\* branch has a label after its instruction iff it lies in [Start, End); a
\* target first seen gets the label L<n> with n the number of labels given
\* before, a target seen again keeps its label; so the labels are L0, L1,
\* ... without gap or repetition, one for each address.
C17_Labels ==
    /\ [](/\ \A i \in 1..Len(clDecoded) :
                /\ clStart <= clDecoded[i] /\ clDecoded[i] < clEnd
                /\ i > 1 => clDecoded[i - 1] < clDecoded[i]
          /\ clDecoded # <<>> => clDecoded[1] = clStart
          /\ clPc = "done" /\ clX86 =>
                clDecoded # <<>> /\ clIndex >= clEnd
          /\ \A a \in DOMAIN Labels : clStart <= a /\ a < clEnd
          /\ \A a, b \in DOMAIN Labels : Labels[a] = Labels[b] => a = b
          /\ LabelCount = Cardinality(DOMAIN Labels)
          /\ {Labels[a] : a \in DOMAIN Labels} =
                {<<"L">> \o Twine(n) : n \in 0..(LabelCount - 1)})
    /\ [][clIndex' # clIndex =>
            LET T == clInst'.Target
                seen == clInst'.Disassembled /\ clMIA /\ clInst'.TargetKnown
            IN  /\ (seen /\ clStart <= T /\ T < clEnd) => T \in DOMAIN Labels'
                /\ \A a \in DOMAIN Labels :
                      a \in DOMAIN Labels' /\ Labels'[a] = Labels[a]
                /\ \A a \in DOMAIN Labels' \ DOMAIN Labels :
                      /\ seen /\ a = T
                      /\ Labels'[a] = <<"L">> \o Twine(Cardinality(DOMAIN Labels))]_vars

C17_Witness ==
    /\ clPc = "done" /\ LabelCount = 2
    /\ \E a, b \in DOMAIN Labels :
          a < b /\ Labels[a] = <<"L", "1">> /\ Labels[b] = <<"L", "0">>
    /\ clInst.TargetKnown /\ clInst.Disassembled /\ clInst.Target \in DOMAIN Labels
    /\ Labels[clInst.Target] = <<"L", "0">>

(***************************************************************************)
(* LiveVariablePrinter: printing, and the calls the instruction loop and   *)
(* PrettyPrinter::printInst make                                           *)
(***************************************************************************)
MaxLive == 3            \* LiveVariables.size() when lines are printed
\* --debug-vars-indent, and getInstStartColumn(STI).
DbgIndent == 3
InstStartColumn == 1
getIndentLevel == DbgIndent + InstStartColumn

\* getLineChar(C): one cell of the line, named after C.
getLineChar(C) == C

\* A line being written: its cells, and for every column of ActiveCols
\* written the physical column the write began at.
LineOf(text) == [text |-> text, marks |-> <<>>]
Spaces(n) == [i \in 1..n |-> " "]
\* OS << s, for column ColIdx.
Put(o, ColIdx, s) ==
    [text |-> o.text \o s,
     marks |-> Append(o.marks, [ColIdx |-> ColIdx, at |-> Len(o.text)])]
\* OS << s, for something else.
Write(o, s) == [o EXCEPT !.text = @ \o s]
\* OS.PadToColumn(col) from a column left of col.
PadToColumn(o, col) ==
    IF col > Len(o.text) THEN Write(o, Spaces(col - Len(o.text))) ELSE o

\* (int)(OS.getColumn() - getIndentLevel() + 1) / 2, clamped at 0.
FirstUnprintedLogicalColumn(o) ==
    LET d == Len(o.text) - getIndentLevel + 1
    IN  IF d < 0 THEN 0 ELSE d \div 2
moveToFirstVarColumn(o) ==
    LET FirstUnprintedPhysicalColumn ==
            getIndentLevel + FirstUnprintedLogicalColumn(o) * 2
    IN  IF FirstUnprintedPhysicalColumn > Len(o.text)
        THEN PadToColumn(o, FirstUnprintedPhysicalColumn)
        ELSE o

\* The loop of printAfterInst from column ColIdx on.
RECURSIVE AfterInstCols(_, _, _)
AfterInstCols(o, cols, ColIdx) ==
    IF ColIdx >= Len(cols) THEN o
    ELSE LET col == cols[ColIdx + 1]
             s == IF ~isActive(col) THEN <<" ", " ">>
                  ELSE IF col.LiveIn /\ col.LiveOut
                       THEN <<getLineChar("RangeMid"), " ">>
                  ELSE IF col.LiveOut THEN <<getLineChar("RangeStart"), " ">>
                  ELSE <<getLineChar("RangeEnd"), " ">>
         IN  AfterInstCols(Put(o, ColIdx, s), cols, ColIdx + 1)

printAfterInst(o, cols) ==
    IF Len(cols) = 0 THEN o
    ELSE AfterInstCols(moveToFirstVarColumn(o), cols, FirstUnprintedLogicalColumn(o))

\* The loop of printAfterOtherLine from column ColIdx on.
RECURSIVE AfterOtherLineCols(_, _, _, _)
AfterOtherLineCols(o, cols, AfterInst, ColIdx) ==
    IF ColIdx >= Len(cols) THEN o
    ELSE LET col == cols[ColIdx + 1]
             s == IF isActive(col)
                  THEN IF (AfterInst /\ col.LiveOut) \/ (~AfterInst /\ col.LiveIn)
                       THEN <<getLineChar("RangeMid"), " ">>
                       ELSE IF ~AfterInst /\ col.LiveOut
                            THEN <<getLineChar("LabelVert"), " ">>
                            ELSE <<" ", " ">>
                  ELSE <<" ">>
         IN  AfterOtherLineCols(Put(o, ColIdx, s), cols, AfterInst, ColIdx + 1)

printAfterOtherLine(o, cols, AfterInst) ==
    IF Len(cols) # 0
    THEN AfterOtherLineCols(moveToFirstVarColumn(o), cols, AfterInst,
                            FirstUnprintedLogicalColumn(o))
    ELSE o

\* printBetweenInsts, the columns left of the label of column ColIdx.
RECURSIVE LabelLeftCols(_, _, _, _)
LabelLeftCols(o, cols, ColIdx, ColIdx2) ==
    IF ColIdx2 >= ColIdx THEN o
    ELSE LET col == cols[ColIdx2 + 1]
             s == IF isActive(col)
                  THEN IF col.MustDrawLabel /\ ~col.LiveIn
                       THEN <<getLineChar("LabelVert"), " ">>
                       ELSE <<getLineChar("RangeMid"), " ">>
                  ELSE <<" ", " ">>
         IN  LabelLeftCols(Put(o, ColIdx2, s), cols, ColIdx, ColIdx2 + 1)

\* printBetweenInsts, the columns right of the label.
RECURSIVE LabelRightCols(_, _, _)
LabelRightCols(o, cols, ColIdx2) ==
    IF ColIdx2 >= Len(cols) THEN o
    ELSE LET col == cols[ColIdx2 + 1]
             s == IF isActive(col) /\ col.LiveIn
                  THEN <<getLineChar("RangeMid"), " ">>
                  ELSE <<" ", " ">>
         IN  LabelRightCols(Put(o, ColIdx2, s), cols, ColIdx2 + 1)

\* VarName, " = ", and the expression LiveVariable::print writes.
LabelText == <<" ", "n", " ", "=", " ", "e">>

\* The label line of column ColIdx, begun on the line o.
LabelLine(o, cols, ColIdx) ==
    LET col == cols[ColIdx + 1]
        left == LabelLeftCols(PadToColumn(o, getIndentLevel), cols, ColIdx, 0)
        corner == Put(left, ColIdx,
                      <<getLineChar(IF col.LiveIn THEN "LabelCornerActive"
                                    ELSE "LabelCornerNew"),
                        getLineChar("LabelHoriz")>>)
        text == Write(corner, LabelText)
    IN  LabelRightCols(moveToFirstVarColumn(text), cols,
                       FirstUnprintedLogicalColumn(text))

\* The first loop of printBetweenInsts from column ColIdx on: the lines
\* written, o the line the stream is on.
RECURSIVE LabelLines(_, _, _, _)
LabelLines(o, cols, ColIdx, lines) ==
    IF ColIdx >= Len(cols) THEN [lines |-> lines, o |-> o]
    ELSE IF isActive(cols[ColIdx + 1]) /\ cols[ColIdx + 1].MustDrawLabel
         THEN LabelLines(LineOf(<<>>), cols, ColIdx + 1,
                         Append(lines,
                                [kind |-> "label", var |-> cols[ColIdx + 1].VarIdx,
                                 line |-> LabelLine(o, cols, ColIdx)]))
         ELSE LabelLines(o, cols, ColIdx + 1, lines)

ClearMustDrawLabel_None(cols) == cols

\* The second loop of printBetweenInsts.
ClearMustDrawLabel(cols) ==
    [c \in 1..Len(cols) |->
        IF isActive(cols[c]) THEN [cols[c] EXCEPT !.MustDrawLabel = FALSE]
        ELSE cols[c]]

\* printBetweenInsts: the lines written, the line the stream is left on,
\* and ActiveCols after the call.
printBetweenInsts(o, cols, MustPrint) ==
    LET labels == LabelLines(o, cols, 0, <<>>)
        PrintedSomething == labels.lines # <<>>
    IN  IF MustPrint /\ ~PrintedSomething
        THEN [lines |-> <<[kind |-> "other", var |-> NullVarIdx,
                           line |-> printAfterOtherLine(o, cols, FALSE)]>>,
              o |-> LineOf(<<>>), Cols |-> ClearMustDrawLabel(cols)]
        ELSE [lines |-> labels.lines, o |-> labels.o,
              Cols |-> ClearMustDrawLabel(cols)]

\* What stands on a line when the printer is called: x for a character.
Text(n) == [i \in 1..n |-> "x"]
\* A source line or a line number, left of the first column.
SourceTexts == {Text(getIndentLevel - 1)}
\* An instruction or a relocation: left of the first column, or into it,
\* or over it.
InstTexts == {Text(1), Text(getIndentLevel + 1), Text(getIndentLevel + 2)}
RelocTexts == {Text(1), Text(getIndentLevel + 1)}

\* The variables that hold a column.
VarsOf(cols) == {cols[c].VarIdx : c \in {d \in 1..Len(cols) : isActive(cols[d])}}

\* The label lines among the lines written, by variable.
LabelsFor(lines, v) ==
    Cardinality({i \in 1..Len(lines) : lines[i].kind = "label" /\ lines[i].var = v})

\* The printer as constructed, before the first instruction of a section
\* with one or two symbols.
InitPrint ==
    /\ LiveVariables \in SeqsUpTo(RangeChoices, MaxLive)
    /\ ActiveCols = <<>>
    /\ ThisAddr = NoAddr /\ NextAddr = NoAddr
    /\ OS = <<>> /\ prIndex = 0 /\ prSize = 0 /\ prSrc = 0
    /\ prEnd \in {2, MaxAddr + 1}
    /\ labelLines = [v \in 1..Len(LiveVariables) |-> 0]
    /\ prPc = "update"
    /\ SkipIdle /\ DrvIdle /\ SortIdle /\ ResIdle /\ MissIdle /\ ClIdle
    /\ LateIdle

\* Lines 1861-1869: the instruction is decoded and update is called.
PrUpdate ==
    /\ prPc = "update"
    /\ \E Sz \in 1..MaxInsn :
         /\ prSize' = Sz
         /\ ThisAddr' = SectionedAddress(prIndex, 0)
         /\ NextAddr' = SectionedAddress(prIndex + Sz, 0)
         /\ ActiveCols' = update(ActiveCols, LiveVariables, ThisAddr', NextAddr',
                                 prIndex + Sz # prEnd)
    /\ labelLines' = [v \in 1..Len(LiveVariables) |->
                         IF (v - 1) \in VarsOf(ActiveCols') \ VarsOf(ActiveCols)
                         THEN 0 ELSE labelLines[v]]
    /\ prPc' = "source"
    /\ UNCHANGED <<LiveVariables, OS, prIndex, prEnd, prSrc,
                   skipVars, drvVars, sortVars, resVars, missVars, clVars,
                   lateVars>>

\* printInst, line 999: printLines or printSources writes a line and calls
\* printBetweenInsts(OS, true) (lines 931 and 959).
PrSourceLine ==
    /\ prPc = "source" /\ prSrc < 2
    /\ \E t \in SourceTexts :
         LET r == printBetweenInsts(LineOf(t), ActiveCols, TRUE)
         IN  /\ OS' = r.lines
             /\ ActiveCols' = r.Cols
             /\ labelLines' = [v \in 1..Len(LiveVariables) |->
                                  labelLines[v] + LabelsFor(r.lines, v - 1)]
    /\ prSrc' = prSrc + 1
    /\ UNCHANGED <<LiveVariables, ThisAddr, NextAddr, prIndex, prSize, prEnd, prPc,
                   skipVars, drvVars, sortVars, resVars, missVars, clVars,
                   lateVars>>

\* printInst, line 1000: LVP.printBetweenInsts(OS, false).
PrBetweenInsts ==
    /\ prPc = "source"
    /\ LET r == printBetweenInsts(LineOf(<<>>), ActiveCols, FALSE)
       IN  /\ OS' = r.lines
           /\ ActiveCols' = r.Cols
           /\ labelLines' = [v \in 1..Len(LiveVariables) |->
                                labelLines[v] + LabelsFor(r.lines, v - 1)]
    /\ prPc' = "after" /\ prSrc' = 0
    /\ UNCHANGED <<LiveVariables, ThisAddr, NextAddr, prIndex, prSize, prEnd,
                   skipVars, drvVars, sortVars, resVars, missVars, clVars,
                   lateVars>>

\* The rest of printInst, and line 1973: LVP.printAfterInst(FOS).
PrAfterInst ==
    /\ prPc = "after"
    /\ \E t \in InstTexts :
         OS' = <<[kind |-> "inst", var |-> NullVarIdx,
                  line |-> printAfterInst(LineOf(t), ActiveCols)]>>
    /\ prPc' = "reloc"
    /\ UNCHANGED <<LiveVariables, ActiveCols, ThisAddr, NextAddr, prIndex, prSize,
                   prEnd, prSrc, labelLines,
                   skipVars, drvVars, sortVars, resVars, missVars, clVars,
                   lateVars>>

\* Lines 2004-2006: a relocation of the instruction is printed.
PrRelocLine ==
    /\ prPc = "reloc"
    /\ \E t \in RelocTexts :
         OS' = <<[kind |-> "other", var |-> NullVarIdx,
                  line |-> printAfterOtherLine(LineOf(t), ActiveCols, TRUE)]>>
    /\ prPc' = "next"
    /\ UNCHANGED <<LiveVariables, ActiveCols, ThisAddr, NextAddr, prIndex, prSize,
                   prEnd, prSrc, labelLines,
                   skipVars, drvVars, sortVars, resVars, missVars, clVars,
                   lateVars>>

\* Index += Size; at the end of the symbol the loop goes on with the next
\* symbol, which begins where this one ends.
PrNextInst ==
    /\ prPc \in {"reloc", "next"}
    /\ IF prIndex + prSize < prEnd
       THEN prIndex' = prIndex + prSize /\ prEnd' = prEnd /\ prPc' = "update"
       ELSE IF prEnd < MaxAddr + 1
            THEN prIndex' = prEnd /\ prEnd' = MaxAddr + 1 /\ prPc' = "update"
            ELSE prIndex' = prIndex /\ prEnd' = prEnd /\ prPc' = "done"
    /\ OS' = <<>>
    /\ UNCHANGED <<LiveVariables, ActiveCols, ThisAddr, NextAddr, prSize, prSrc,
                   labelLines,
                   skipVars, drvVars, sortVars, resVars, missVars, clVars,
                   lateVars>>

NextPrint ==
    \/ PrUpdate
    \/ PrSourceLine
    \/ PrBetweenInsts
    \/ PrAfterInst
    \/ PrRelocLine
    \/ PrNextInst

SpecPrint == InitPrint /\ [][NextPrint]_vars

\* The columns after the variables from VarIdx on that held no column
\* (had) and are live at this or next have each, in turn, taken the lowest
\* inactive column or, when there is none, the first column added by
\* doubling the array (one column when it is empty).
RECURSIVE AssignedInTurn(_, _, _, _, _, _)
AssignedInTurn(cols, LVs, had, VarIdx, this, next) ==
    IF VarIdx >= Len(LVs) THEN cols
    ELSE LET in == liveAtAddress(LVs[VarIdx + 1], this)
             out == liveAtAddress(LVs[VarIdx + 1], next)
             inactive == {c \in 1..Len(cols) : cols[c].VarIdx = NullVarIdx}
             room == IF inactive # {} THEN cols
                     ELSE cols \o [i \in 1..(IF cols = <<>> THEN 1 ELSE Len(cols)) |-> Column]
             c == IF inactive # {} THEN Least(inactive) ELSE Len(cols) + 1
         IN  IF VarIdx \in had \/ ~(in \/ out)
             THEN AssignedInTurn(cols, LVs, had, VarIdx + 1, this, next)
             ELSE AssignedInTurn(
                     [room EXCEPT ![c] = [VarIdx |-> VarIdx, LiveIn |-> in,
                                          LiveOut |-> out, MustDrawLabel |-> TRUE]],
                     LVs, had, VarIdx + 1, this, next)

\* C18: an update with IncludeDefinedVars leaves the columns as pass 1 left
\* them but for the variables without a column that are live at ThisAddr or
\* NextAddr: each, in the order of the variables, has the lowest column
\* inactive at its turn, or the first new column of the array doubled (one
\* column when empty), with MustDrawLabel set.
C18_Pass2 ==
    [][(prPc = "update" /\ prPc' = "source" /\ prIndex + prSize' # prEnd) =>
          ActiveCols' =
             AssignedInTurn(UpdatePass1(ActiveCols, LiveVariables, ThisAddr', NextAddr'),
                            LiveVariables, VarsOf(ActiveCols), 0, ThisAddr', NextAddr')]_vars

\* A variable that begins after the first instruction has taken column 0
\* of two free columns.
C18_Witness ==
    /\ prPc = "source" /\ Len(ActiveCols) = 2
    /\ isActive(ActiveCols[1]) /\ ActiveCols[1].MustDrawLabel
    /\ ~isActive(ActiveCols[2])
    /\ LiveVariables[ActiveCols[1].VarIdx + 1].LowPC > 0
    /\ prIndex > 0

\* ---- printAfterInst after any calls of update ----
\* Line 1868: LVP.update(...) for a decoded unit, on a line of its own.
LiveUpdate ==
    /\ \E a \in 0..MaxAddr, b \in 0..(MaxAddr + 1), sec \in SectionIndices,
          IncludeDefinedVars \in BOOLEAN :
         /\ ThisAddr' = SectionedAddress(a, sec)
         /\ NextAddr' = SectionedAddress(b, sec)
         /\ ActiveCols' = update(ActiveCols, LiveVariables, ThisAddr', NextAddr',
                                 IncludeDefinedVars)
    /\ OS' = <<>>
    /\ UNCHANGED <<LiveVariables, prIndex, prSize, prEnd, prSrc, labelLines, prPc,
                   skipVars, drvVars, sortVars, resVars, missVars, clVars,
                   lateVars>>

\* Line 1973: LVP.printAfterInst(FOS), after a decoded unit, which update
\* was called for, or after a data unit, which it was not called for.
CallPrintAfterInst ==
    /\ OS' = <<[kind |-> "inst", var |-> NullVarIdx,
                line |-> printAfterInst(LineOf(Text(1)), ActiveCols)]>>
    /\ UNCHANGED <<lvpVars, prIndex, prSize, prEnd, prSrc, labelLines, prPc,
                   skipVars, drvVars, sortVars, resVars, missVars, clVars,
                   lateVars>>

NextLive == LiveUpdate \/ CallPrintAfterInst

SpecLive == InitLVP /\ [][NextLive]_vars

\* C28: whenever printAfterInst runs, every active column has LiveIn or
\* LiveOut set, so the branch marked unreachable is not taken, whatever
\* calls of update came before and also when none came since the last
\* call of printAfterInst.
C28_LiveInOrOut ==
    \A c \in 1..Len(ActiveCols) :
       isActive(ActiveCols[c]) => ActiveCols[c].LiveIn \/ ActiveCols[c].LiveOut

\* A line written with one column at the end of its range and one in the
\* middle of it.
C28_Witness ==
    /\ OS # <<>> /\ Len(OS[1].line.marks) >= 2
    /\ \E c \in 1..Len(ActiveCols) :
          isActive(ActiveCols[c]) /\ ActiveCols[c].LiveIn /\ ~ActiveCols[c].LiveOut
    /\ \E c \in 1..Len(ActiveCols) :
          isActive(ActiveCols[c]) /\ ActiveCols[c].LiveIn /\ ActiveCols[c].LiveOut

\* C25 (as claimed): an update without IncludeDefinedVars, the one for the
\* last instruction of a symbol range, ignores only the ranges that start
\* at NextAddr: every variable live at ThisAddr holds a column after the
\* call, also when it held none before.
C25_LiveAtThisAddrHasColumn ==
    [][(prPc = "update" /\ prPc' = "source" /\ prIndex + prSize' = prEnd) =>
          \A v \in 1..Len(LiveVariables) :
             liveAtAddress(LiveVariables[v], ThisAddr') =>
                (v - 1) \in VarsOf(ActiveCols')]_vars

\* ---- the printer in a section with a base address ----
MaxBaseVars == 1        \* LiveVariables.size()

\* The location ranges of the DWARF of a linked image hold the addresses
\* of the image: those of a section at `base` lie at and above it.
RangeChoicesAt(base) ==
    {NoRange} \cup
    UNION {{LiveVariable(base + lo, base + hi, 0) : hi \in (lo + 1)..(MaxAddr + 1)} :
              lo \in 0..MaxAddr}

\* As InitPrint, for a section of a relocatable object, at 0, or of a
\* linked one, at BaseAddr.
InitBase ==
    /\ IsRelocatable \in BOOLEAN
    /\ SectionAddr = (IF IsRelocatable THEN 0 ELSE BaseAddr)
    /\ LiveVariables \in SeqsUpTo(RangeChoicesAt(SectionAddr), MaxBaseVars)
    /\ ActiveCols = <<>>
    /\ ThisAddr = NoAddr /\ NextAddr = NoAddr
    /\ OS = <<>> /\ prIndex = 0 /\ prSize = 0 /\ prSrc = 0
    /\ prEnd \in {2, MaxAddr + 1}
    /\ labelLines = [v \in 1..Len(LiveVariables) |-> 0]
    /\ prPc = "update"
    /\ StartAddress = 0 /\ StopAddress = UINT64_MAX
    /\ InlineRelocs = FALSE /\ DisassembleZeroes = FALSE
    /\ Disassemble = FALSE /\ ObjRels = <<>> /\ relocLines = <<>>
    /\ Bytes = <<>> /\ Symbols = <<>> /\ MappingSymbols = <<>> /\ Rels = <<>>
    /\ pc = "idle" /\ SI = 0 /\ Start = 0 /\ End = 0 /\ Index = 0 /\ Size = 0
    /\ RelCur = 0
    /\ unit = NoUnit /\ iters = 0 /\ onlyUnknown = TRUE
    /\ SkipIdle /\ SortIdle /\ ResIdle /\ MissIdle /\ ClIdle /\ LateIdle

SpecBase == InitBase /\ [][NextPrint]_vars

\* C30 (as claimed): the addresses handed to update are those the unit is
\* printed at, SectionAddr + Index and SectionAddr + Index + Size, so that
\* a variable whose range covers the address printed holds a column after
\* an update that assigns columns, whatever the base of the section.
C30_UpdateAtPrintedAddress ==
    [][(prPc = "update" /\ prPc' = "source") =>
          /\ ThisAddr'.Address = SectionAddr + prIndex
          /\ NextAddr'.Address = SectionAddr + prIndex + prSize'
          /\ prIndex + prSize' # prEnd =>
                \A v \in 1..Len(LiveVariables) :
                   liveAtAddress(LiveVariables[v],
                                 SectionedAddress(SectionAddr + prIndex, 0)) =>
                      (v - 1) \in VarsOf(ActiveCols')]_vars

C20_TwoCellsPerColumn ==
    \A i \in 1..Len(OS) :
       \A k \in 1..Len(OS[i].line.marks) :
          OS[i].line.marks[k].at = getIndentLevel + 2 * OS[i].line.marks[k].ColIdx

(***************************************************************************)
(* The decoder in use for ARM ELF objects (lines 1522-1526, 1819-1831)     *)
(***************************************************************************)
MaxModeSecs == 2        \* sections disassembled in a run
ModeSectSize == 4       \* Section.getSize() of each
MaxMapSyms == 2         \* mapping symbols of a section
ModeInsn == 2           \* the size of a decoded instruction

MapKinds == {"a", "t", "d", "x"}
\* The mapping symbols a section may hold, sorted as line 1677 leaves them.
MapChoices ==
    {ms \in SeqsUpTo({<<o, k>> : o \in {0, 2}, k \in MapKinds}, MaxMapSyms) :
        \A i \in 1..(Len(ms) - 1) : ms[i][1] <= ms[i + 1][1]}

\* Lines 1822-1830: STI and DisAsm are assigned for the kinds 'a' and 't'
\* when there is a secondary subtarget, and left as they are otherwise.
SelectDisAsm(kind, cur) ==
    IF SecondarySTI /\ kind = "a"
    THEN (IF PrimaryIsThumb THEN "Secondary" ELSE "Primary")
    ELSE IF SecondarySTI /\ kind = "t"
         THEN (IF PrimaryIsThumb THEN "Primary" ELSE "Secondary")
         ELSE cur

\* Before the loop over the sections: STI = PrimarySTI, DisAsm =
\* PrimaryDisAsm (lines 1522-1523).
InitMode ==
    /\ DisAsm = "Primary"
    /\ PrimaryIsThumb \in BOOLEAN
    /\ SecondarySTI \in BOOLEAN
    /\ Kind = "0"
    /\ RestSections \in {r \in SeqsUpTo(MapChoices, MaxModeSecs) : r # <<>>}
    /\ IsRelocatable = TRUE /\ Disassemble = TRUE
    /\ InlineRelocs = FALSE /\ DisassembleZeroes = TRUE
    /\ ObjRels = <<>> /\ relocLines = <<>>
    /\ StartAddress = 0 /\ StopAddress = UINT64_MAX
    /\ SectionAddr = 0 /\ Bytes = <<>> /\ Symbols = <<>> /\ MappingSymbols = <<>>
    /\ Rels = <<>>
    /\ pc = "section" /\ SI = 0 /\ Start = 0 /\ End = 0 /\ Index = 0 /\ Size = 0
    /\ RelCur = 0
    /\ unit = NoUnit /\ iters = 0 /\ onlyUnknown = TRUE
    /\ SkipIdle /\ SortIdle /\ LvpIdle /\ ResIdle
    /\ MissIdle /\ ClIdle /\ PrIdle /\ StartIdle

\* The loop reaches the next section: its mapping symbols are collected and
\* its one symbol range [0, size) begins.  STI and DisAsm are variables of
\* the function and stay as the section before left them.
ModeEnterSection ==
    /\ pc = "section" /\ RestSections # <<>>
    /\ MappingSymbols' = Head(RestSections)
    /\ RestSections' = Tail(RestSections)
    /\ Start' = 0 /\ Index' = 0 /\ End' = ModeSectSize /\ Size' = 0
    /\ pc' = "loop"
    /\ UNCHANGED <<DisAsm, PrimaryIsThumb, SecondarySTI, Kind, startVars,
                   IsRelocatable, Disassemble, InlineRelocs, ObjRels,
                   DisassembleZeroes, StartAddress, StopAddress, SectionAddr,
                   Bytes, Symbols, Rels, SI, RelCur, outVars,
                   skipVars, sortVars, lvpVars, resVars, missVars, clVars,
                   prVars>>

\* An iteration of the instruction loop at Index (lines 1814-1836).
ModeUnit ==
    /\ pc = "loop" /\ Index < End
    /\ Kind' = getMappingSymbolKind(MappingSymbols, Index)
    /\ DisAsm' = SelectDisAsm(Kind', DisAsm)
    /\ Size' = IF Kind' = "d" THEN dumpARMELFData(Index, End) ELSE ModeInsn
    /\ Index' = Index + Size'
    /\ UNCHANGED <<PrimaryIsThumb, SecondarySTI, RestSections, startVars,
                   IsRelocatable, Disassemble, InlineRelocs, ObjRels,
                   DisassembleZeroes, StartAddress, StopAddress, SectionAddr,
                   Bytes, Symbols, MappingSymbols, Rels, pc, SI, Start, End,
                   RelCur, outVars,
                   skipVars, sortVars, lvpVars, resVars, missVars, clVars,
                   prVars>>

ModeEndSection ==
    /\ pc = "loop" /\ Index >= End
    /\ pc' = IF RestSections = <<>> THEN "done" ELSE "section"
    /\ UNCHANGED <<modeVars, startVars,
                   IsRelocatable, Disassemble, InlineRelocs, ObjRels,
                   DisassembleZeroes, StartAddress, StopAddress, SectionAddr,
                   Bytes, Symbols, MappingSymbols, Rels, SI, Start, End, Index,
                   Size, RelCur, outVars,
                   skipVars, sortVars, lvpVars, resVars, missVars, clVars,
                   prVars>>

NextMode == ModeEnterSection \/ ModeUnit \/ ModeEndSection

SpecMode == InitMode /\ [][NextMode]_vars

\* The unit the last iteration handled began at Index - Size.
ModeUnitDone == pc = "loop" /\ Size # 0

\* C23 (as claimed): getMappingSymbolKind gives the kind of the last
\* mapping symbol at or before the address and 0 before the first, and a
\* unit at an address of kind 0 is decoded with the primary decoder,
\* whichever decoder the section or symbol range before ended with.
C23_DefaultModeBeforeFirst ==
    ModeUnitDone =>
        /\ Kind = getMappingSymbolKind(MappingSymbols, Index - Size)
        /\ Kind = "0" => DisAsm = "Primary"

(***************************************************************************)
(* The answer of onSymbolStart (lines 1755-1788)                           *)
(***************************************************************************)
StartSectSize == 4      \* Section.getSize()

\* Before the call of onSymbolStart for a symbol with the range
\* [Start, End) of a section with the contents Bytes.
InitStart ==
    /\ Status = "None" /\ byteLines = <<>>
    /\ Bytes \in [1..StartSectSize -> {0, 1}]
    /\ Start \in 0..(StartSectSize - 1)
    /\ End \in (Start + 1)..StartSectSize
    /\ Index = 0 /\ Size = 0
    /\ pc = "symbols"
    /\ IsRelocatable = TRUE /\ Disassemble = TRUE
    /\ InlineRelocs = FALSE /\ DisassembleZeroes = TRUE
    /\ ObjRels = <<>> /\ relocLines = <<>>
    /\ StartAddress = 0 /\ StopAddress = UINT64_MAX
    /\ SectionAddr = 0 /\ Symbols = <<>> /\ MappingSymbols = <<>>
    /\ Rels = <<>> /\ SI = 0 /\ RelCur = 0
    /\ unit = NoUnit /\ iters = 0 /\ onlyUnknown = TRUE
    /\ SkipIdle /\ SortIdle /\ LvpIdle /\ ResIdle
    /\ MissIdle /\ ClIdle /\ PrIdle /\ ModeIdle

\* for (uint64_t I = 0; I < Size; ++I) ... format_hex(Bytes[I], 1, true):
\* Bytes is the contents of the section, Bytes[I] its byte at offset I.
DumpFailedRegion(size) == [I \in 1..size |-> Bytes[(I - 1) + 1]]

\* The call and what follows it up to `Index = Start`: the target answers
\* with a status and the size it consumed of the bytes of the symbol, or
\* with nothing.
OnSymbolStart ==
    /\ pc = "symbols"
    /\ \E st \in {"None", "Fail", "SoftFail", "Success"}, sz \in 0..(End - Start) :
         /\ Status' = st
         /\ Size' = IF st = "None" THEN 0 ELSE sz
         /\ byteLines' = IF st = "Fail" THEN DumpFailedRegion(sz) ELSE <<>>
    /\ Start' = Start + Size'
    /\ Index' = Start'
    /\ pc' = "loop"
    /\ UNCHANGED <<modeVars,
                   IsRelocatable, Disassemble, InlineRelocs, ObjRels,
                   DisassembleZeroes, StartAddress, StopAddress, SectionAddr,
                   Bytes, Symbols, MappingSymbols, Rels, SI, End, RelCur,
                   outVars,
                   skipVars, sortVars, lvpVars, resVars, missVars, clVars,
                   prVars>>

\* An iteration of the instruction loop, with -z: one unit is decoded.
StartDecodeUnit ==
    /\ pc = "loop" /\ Index < End
    /\ \E reported \in 0..Min(MaxInsn, Len(Bytes) - Index) :
         /\ Size' = UnitSize(reported)
         /\ Index' = Index + Size'
    /\ iters' = iters + 1
    /\ UNCHANGED <<modeVars, startVars,
                   IsRelocatable, Disassemble, InlineRelocs, ObjRels,
                   DisassembleZeroes, StartAddress, StopAddress, SectionAddr,
                   Bytes, Symbols, MappingSymbols, Rels, pc, SI, Start, End,
                   RelCur, relocLines, unit, onlyUnknown,
                   skipVars, sortVars, lvpVars, resVars, missVars, clVars,
                   prVars>>

StartEndSymbol ==
    /\ pc = "loop" /\ Index >= End
    /\ pc' = "done"
    /\ UNCHANGED <<modeVars, startVars,
                   IsRelocatable, Disassemble, InlineRelocs, ObjRels,
                   DisassembleZeroes, StartAddress, StopAddress, SectionAddr,
                   Bytes, Symbols, MappingSymbols, Rels, SI, Start, End, Index,
                   Size, RelCur, outVars,
                   skipVars, sortVars, lvpVars, resVars, missVars, clVars,
                   prVars>>

NextStart == OnSymbolStart \/ StartDecodeUnit \/ StartEndSymbol

SpecStart == InitStart /\ [][NextStart]_vars

\* C24 (as claimed): when onSymbolStart answers Fail with the consumed
\* length Size for a symbol at the section offset Start, the bytes dumped
\* as .byte lines are those at the offsets [Start, Start + Size) of the
\* section, and decoding goes on at Start + Size.
C24_FailedRegionDumped ==
    [][(pc = "symbols" /\ pc' = "loop" /\ Status' = "Fail") =>
          /\ byteLines' = SubSeq(Bytes, Start + 1, Start + Size')
          /\ Index' = Start + Size']_vars

\* ---- bounds of the buffers handed to countSkippableZeroBytes ----
MaxZeros == 21
MaxTail == 2

\* Every buffer is a run of zero bytes followed by arbitrary bytes.
SkipInputs == {Zeros(z) \o t : z \in 0..MaxZeros, t \in SeqsUpTo(Bytes8, MaxTail)}

InitSkip ==
    /\ Buf \in SkipInputs
    /\ N = 0
    /\ skipPc = "call"
    /\ DrvIdle /\ SortIdle /\ LvpIdle /\ ExtIdle

CallCountSkippable ==
    /\ skipPc = "call"
    /\ N' = countSkippableZeroBytes(Buf)
    /\ skipPc' = "done"
    /\ UNCHANGED <<Buf, drvVars, sortVars, lvpVars, extVars>>

NextSkip == CallCountSkippable

SpecSkip == InitSkip /\ [][NextSkip]_vars

\* The length of the leading zero run of Buf, stated without the loop.
ZeroRun(B) ==
    CHOOSE k \in 0..Len(B) :
        /\ \A i \in 1..k : B[i] = 0
        /\ (k < Len(B) => B[k + 1] # 0)

\* C3: countSkippableZeroBytes returns 0 when the buffer has fewer than 8
\* leading zero bytes, and otherwise the largest multiple of 4 that does not
\* exceed the length of the leading zero run.
C3_SkipCount ==
    skipPc = "done" =>
        LET z == ZeroRun(Buf)
        IN  IF z < 8 THEN N = 0
            ELSE /\ N % 4 = 0
                 /\ N <= z
                 /\ N + 4 > z

C3_Witness ==
    /\ skipPc = "done"
    /\ ZeroRun(Buf) = 11
    /\ Len(Buf) > 11
    /\ N = 8

\* C4 (as claimed): a 20-byte all-zero buffer yields 16.
C4_TwentyZeroes_Claimed ==
    (skipPc = "done" /\ Buf = Zeros(20)) => N = 16

\* C4 (amended): countSkippableZeroBytes applied to a 20-byte all-zero
\* buffer returns 20, since 20 is itself a multiple of 4.
C4_TwentyZeroes ==
    (skipPc = "done" /\ Buf = Zeros(20)) => N = 20

C4_Witness ==
    /\ skipPc = "done"
    /\ Len(Buf) = 20
    /\ \A i \in 1..20 : Buf[i] = 0

=============================================================================
